---- MODULE Spec2Model ----
(***************************************************************************)
(* Model of the medical-telemetry backend: the device ingestion pipeline   *)
(* (handlers.rs device_ingest), the bearer-token plane (auth.rs, logout,   *)
(* get_latest_vitals, export_fhir_bundle), the live broadcaster (sse.rs),  *)
(* the anomaly analyzer (ml_service.rs) and the latest-vitals cache        *)
(* (redis_cache.rs).                                                       *)
(*                                                                         *)
(* Handlers are split at their suspension points (every .await on the      *)
(* database, the cache or the cache lock), so that requests interleave     *)
(* the way the worker pool lets them.  A database or cache call may fail;  *)
(* the failure is an input of the step that makes the call.                *)
(***************************************************************************)
EXTENDS Integers, Sequences, FiniteSets, TLC

VARIABLES
    now,        \* server clock, unix seconds (Utc::now().timestamp())
    build,      \* "debug" | "release": decides what integer overflow does
    issued,     \* bearer tokens handed out by login/signup
    revoked,    \* rows of revoked_tokens
    loggedOut,  \* history: token ids whose logout request was answered 200
    cli,        \* bearer client requests in flight (logout / latest / export)
    ing,        \* device_ingest requests in flight, one per worker
    readings,   \* rows of sensor_readings, in id order (id = index)
    analyses,   \* rows of ml_analysis
    fhir,       \* rows of fhir_observations
    cacheLatest,\* redis key vitals:latest (<<>> when unset)
    cacheRecent,\* redis list readings:recent, newest first
    redisLock,  \* holder of the RwLock write guard on the cache (<<>> = free)
    chan,       \* every event accepted by the broadcaster, in send order
    subs,       \* stream connections (subscription cursor and emitted items)
    users,      \* rows of the users table
    ses,        \* signup / login requests in flight
    hist,       \* history of the session endpoints (see SpecSession)
    vin,        \* the input of the function under examination
    vout        \* what the function returned for it

vars == <<now, build, issued, revoked, loggedOut, cli, ing, readings, analyses,
          fhir, cacheLatest, cacheRecent, redisLock, chan, subs, users, ses,
          hist, vin, vout>>

authVars == <<issued, revoked, loggedOut, cli>>
storeVars == <<readings, analyses, fhir>>
cacheVars == <<cacheLatest, cacheRecent, redisLock>>
streamVars == <<chan, subs>>
sessVars == <<users, ses, hist>>
verifyVars == <<vin, vout>>

None == <<>>
Some(x) == <<x>>
IsSome(o) == Len(o) = 1
Get(o) == o[1]
UnwrapOr(o, d) == IF IsSome(o) THEN Get(o) ELSE d

Min(a, b) == IF a < b THEN a ELSE b
Max(a, b) == IF a > b THEN a ELSE b
Abs(x) == IF x < 0 THEN -x ELSE x

(***************************************************************************)
(* Bounds of the model.                                                    *)
(***************************************************************************)
\* width at which the i64 arithmetic of the replay check is modelled
I64Bits == 8
\* rows of sensor_readings the model lets the pipeline insert
MaxReadings == 1
\* successful logins the model lets happen
MaxLogins == 1
\* signup and login requests the model lets start
MaxSessionRequests == 3
\* events the model lets the broadcaster send in SpecStream
MaxEvents == 130
\* events the model lets the broadcaster send in SpecFeed
MaxFeedEvents == 2
\* heartbeats of the 30 s timer the model lets one stream send
MaxHeartbeats == 1
\* set_latest_vitals calls the model lets happen in SpecCache
MaxCacheWrites == 2

I64Modulus == 2 ^ I64Bits
I64Min == -(2 ^ (I64Bits - 1))
I64Max == (2 ^ (I64Bits - 1)) - 1

(***************************************************************************)
(* Program constants.                                                      *)
(***************************************************************************)
ReplayWindow == 60
HrMin == 0
HrMax == 300
Spo2Min == 0
Spo2Max == 100
TempMin == 250      \* 25.0 C, temperatures are in tenths of a degree
TempMax == 450      \* 45.0 C
DeviceSecret == "test_device_secret"
CriticalHrLow == 40
CriticalHrHigh == 180
CriticalSpo2Low == 88
AnomalyThreshold == 85   \* 0.85, scores are in hundredths
EnableAlerts == TRUE
ChannelCapacity == 100

(***************************************************************************)
(* Request bodies.  A body on the wire is a byte string; the model keeps   *)
(* its parsed fields and the form of its bytes.  serde_json::to_string of  *)
(* the parsed struct always yields the compact form with the struct's      *)
(* field order, whatever bytes were received.                              *)
(***************************************************************************)
BodyForms == {"compact", "spaced", "reordered", "numfmt"}

RawBody(f, form) == [fields |-> f, form |-> form]

\* web::Json<DeviceVitalsIngest>: the extractor parses the received bytes
ParseBody(raw) == raw.fields

\* serde_json::to_string(&*body)
SerializeBody(f) == RawBody(f, "compact")

\* body.validate(): the range attributes on DeviceVitalsIngest
ValidateRanges(f) ==
    /\ f.heartRate >= HrMin /\ f.heartRate <= HrMax
    /\ f.spo2 >= Spo2Min /\ f.spo2 <= Spo2Max
    /\ f.temperature >= TempMin /\ f.temperature <= TempMax

(***************************************************************************)
(* X-Timestamp: a header string.  "dec" is the plain decimal form, "plus"  *)
(* a decimal with a leading '+' (str::parse::<i64> accepts it), "junk" a   *)
(* string that does not parse.                                             *)
(***************************************************************************)
TsHeader(v, form) == [val |-> v, form |-> form]

\* .and_then(|s| s.parse::<i64>().ok())
ParseTimestamp(h) == IF h.form = "junk" THEN None ELSE Some(h.val)

\* format!("{}", timestamp)
FormatTimestamp(v) == TsHeader(v, "dec")

(***************************************************************************)
(* HMAC-SHA256 and base64 as ideal, collision-free functions.              *)
(***************************************************************************)
HmacSha256(key, msg) == <<"hmac", key, msg>>
Base64(mac) == <<"b64", mac>>

\* the string "{ts}.{body}" as bytes
SignedString(tsText, bodyBytes) == <<tsText, bodyBytes>>

\* what a device computes over the bytes it sends
ClientSignature(key, tsHeader, raw) ==
    Base64(HmacSha256(key, SignedString(tsHeader, raw)))

\* handlers.rs 237-241: the MAC is taken over the re-serialized body
ExpectedSignature(secret, timestamp, body) ==
    Base64(HmacSha256(secret,
        SignedString(FormatTimestamp(timestamp), SerializeBody(body))))

(***************************************************************************)
(* Replay window, in i64 arithmetic modelled at I64Bits bits.              *)
(* A debug build panics on overflow (overflow-checks), a release build     *)
(* wraps; i64::abs(i64::MIN) is i64::MIN in a release build.               *)
(***************************************************************************)
InI64(x) == x >= I64Min /\ x <= I64Max
WrapI64(x) == ((x - I64Min) % I64Modulus) + I64Min

\* a window of no width: only ts = now passes (a variant C35 rules out)
ReplayCheckNoWindow(nowT, ts, bld) ==
    LET d == nowT - ts IN
    IF (~InI64(d) \/ d = I64Min) /\ bld = "debug" THEN "panic"
    ELSE LET w == WrapI64(d)
             a == IF w = I64Min THEN I64Min ELSE Abs(w)
         IN IF a > 0 THEN "reject" ELSE "pass"

\* (now - timestamp).abs() > 60  ->  "reject"
ReplayCheck(nowT, ts, bld) ==
    LET d == nowT - ts IN
    IF (~InI64(d) \/ d = I64Min) /\ bld = "debug" THEN "panic"
    ELSE LET w == WrapI64(d)
             a == IF w = I64Min THEN I64Min ELSE Abs(w)
         IN IF a > ReplayWindow THEN "reject" ELSE "pass"

(***************************************************************************)
(* The synchronous front of device_ingest (handlers.rs 209-245): every     *)
(* check made before the first database call.  The verdict is the HTTP     *)
(* status and the error text, or "pass".                                   *)
(***************************************************************************)
Verdict(status, why) == [status |-> status, why |-> why]
Pass == Verdict(0, "pass")

IngestFront(req, nowT, bld) ==
    IF req.raw.form = "malformed" THEN Verdict(400, "json")
    ELSE IF ~ValidateRanges(ParseBody(req.raw)) THEN Verdict(400, "validation")
    ELSE IF ~IsSome(req.dev) THEN Verdict(401, "Missing X-Device-Id")
    ELSE IF ~IsSome(req.ts) \/ ~IsSome(ParseTimestamp(Get(req.ts)))
         THEN Verdict(401, "Missing X-Timestamp")
    ELSE IF ~IsSome(req.sig) THEN Verdict(401, "Missing X-Signature")
    ELSE LET timestamp == Get(ParseTimestamp(Get(req.ts)))
             rc == ReplayCheck(nowT, timestamp, bld)
         IN IF rc = "panic" THEN Verdict(500, "panic")
            ELSE IF rc = "reject" THEN Verdict(401, "Timestamp out of range")
            ELSE IF ExpectedSignature(DeviceSecret, timestamp, ParseBody(req.raw))
                        # Get(req.sig)
                 THEN Verdict(401, "Invalid signature")
            ELSE Pass

(***************************************************************************)
(* Anomaly analyzer (ml_service.rs).  Scores are f32 in the code and       *)
(* hundredths here; every sum the rules can produce compares with 0.0,     *)
(* 0.5 and the 0.85 threshold the same way in f32 and in hundredths.       *)
(* A reading row is [id, device_id, heart_rate, spo2, temperature,         *)
(* reading_timestamp] with the three vitals optional.                      *)
(***************************************************************************)
OrZero(o) == IF IsSome(o) THEN Get(o) ELSE 0

\* the penalties without the final max(0.0) (a variant C32 rules out)
AssessSignalQualityUnclamped(hr, spo2, temp) ==
    LET q0 == 100
        q1 == IF hr = 0 THEN q0 - 40 ELSE q0
        q2 == IF spo2 = 0 THEN q1 - 40 ELSE q1
        q3 == IF temp = 0 THEN q2 - 20 ELSE q2
    IN IF hr > 250 \/ spo2 > 100 \/ temp > 430 \/ temp < 300
       THEN q3 - 30 ELSE q3

\* assess_signal_quality, ml_service.rs 115-135
AssessSignalQuality(hr, spo2, temp) ==
    LET q0 == 100
        q1 == IF hr = 0 THEN q0 - 40 ELSE q0
        q2 == IF spo2 = 0 THEN q1 - 40 ELSE q1
        q3 == IF temp = 0 THEN q2 - 20 ELSE q2
        q4 == IF hr > 250 \/ spo2 > 100 \/ temp > 430 \/ temp < 300
              THEN q3 - 30 ELSE q3
    IN Max(q4, 0)

\* |calculate_zscore(value, mean, std_dev)| > 3.0
ZScoreAnomalous(value, mean, stdDev) ==
    IF stdDev = 0 THEN FALSE ELSE Abs(value - mean) > 3 * stdDev

\* MlConfig of the tests (integration_test.rs 52-58, ml_service.rs 195-203)
TestMlConfig ==
    [anomaly_threshold |-> AnomalyThreshold, enable_alerts |-> EnableAlerts,
     critical_hr_low |-> CriticalHrLow, critical_hr_high |-> CriticalHrHigh,
     critical_spo2_low |-> CriticalSpo2Low]

\* every rule that fires sets the level, the last one wins (a variant C31 rules out)
AlertLevelLastWins(brady, tachy, hypox, fever, hypoth, poor) ==
    LET l1 == IF brady \/ tachy THEN "critical" ELSE "none"
        l2 == IF hypox THEN "critical" ELSE l1
        l3 == IF fever \/ hypoth THEN "high" ELSE l2
    IN IF poor THEN "low" ELSE l3

\* the assignments to alert_level in statement order, ml_service.rs 19-69
AlertLevel(brady, tachy, hypox, fever, hypoth, poor) ==
    LET l0 == "none"
        l1 == IF brady \/ tachy THEN "critical" ELSE l0
        l2 == IF hypox THEN "critical" ELSE l1
        l3 == IF (fever \/ hypoth) /\ l2 = "none" THEN "high" ELSE l2
    IN IF poor /\ l3 = "none" THEN "low" ELSE l3

\* analyze_reading under configuration cfg, ml_service.rs 16-112;
\* anomalies holds the rules that pushed a message
AnalyzeWith(cfg, r) ==
    LET hr == OrZero(r.heart_rate)
        spo2 == OrZero(r.spo2)
        temp == OrZero(r.temperature)
        brady == hr > 0 /\ hr < cfg.critical_hr_low
        tachy == hr > 0 /\ ~brady /\ hr > cfg.critical_hr_high
        hypox == spo2 > 0 /\ spo2 < cfg.critical_spo2_low
        fever == temp > 0 /\ temp > 380
        hypoth == temp > 0 /\ ~fever /\ temp < 355
        quality == AssessSignalQuality(hr, spo2, temp)
        poor == quality < 50
        zhr == ZScoreAnomalous(hr, 70, 12)
        zspo2 == ZScoreAnomalous(spo2, 97, 2)
        raw == (IF brady THEN 80 ELSE 0) + (IF tachy THEN 80 ELSE 0)
               + (IF hypox THEN 90 ELSE 0) + (IF fever THEN 60 ELSE 0)
               + (IF hypoth THEN 70 ELSE 0) + (IF zhr THEN 50 ELSE 0)
               + (IF zspo2 THEN 50 ELSE 0)
        level == AlertLevel(brady, tachy, hypox, fever, hypoth, poor)
        anomalies ==
            (IF brady THEN {"bradycardia"} ELSE {})
            \cup (IF tachy THEN {"tachycardia"} ELSE {})
            \cup (IF hypox THEN {"hypoxemia"} ELSE {})
            \cup (IF fever THEN {"fever"} ELSE {})
            \cup (IF hypoth THEN {"hypothermia"} ELSE {})
            \cup (IF poor THEN {"poor_signal"} ELSE {})
            \cup (IF zhr THEN {"hr_zscore"} ELSE {})
            \cup (IF zspo2 THEN {"spo2_zscore"} ELSE {})
    IN [anomaly_detected |-> anomalies # {},
        anomalies |-> anomalies,
        raw |-> raw,
        anomaly_score |-> Min(raw \div 2, 100),
        classification |-> IF raw = 0 THEN "normal"
                           ELSE IF raw < 50 THEN "warning" ELSE "critical",
        alert_level |-> level,
        quality_score |-> quality]

\* the analyzer as the server is configured
AnalyzeReading(r) == AnalyzeWith(TestMlConfig, r)

\* generate_alert under configuration cfg, ml_service.rs 146-168:
\* <<>> or <<the alert's level>>
GenerateAlertWith(cfg, a) ==
    IF ~cfg.enable_alerts \/ ~a.anomaly_detected THEN None
    ELSE IF a.anomaly_score < cfg.anomaly_threshold THEN None
    ELSE IF a.alert_level \in {"critical", "high", "medium", "low"}
         THEN Some(a.alert_level)
    ELSE None

GenerateAlert(a) == GenerateAlertWith(TestMlConfig, a)

(***************************************************************************)
(* FHIR projector (fhir_service.rs).  The random ids and the creation      *)
(* time of the resources are left out.                                     *)
(***************************************************************************)
\* integers up to 2^24 are exact in an f32
F32Exact == 16777216

\* `as f32` of an i32 below 2^25: beyond 2^24 the nearest even integer,
\* a tie going to the multiple of 4
AsF32(i) ==
    LET a == IF i < 0 THEN -i ELSE i
        r == IF a <= F32Exact \/ a % 2 = 0 THEN a
             ELSE IF (a + 1) % 4 = 0 THEN a + 1 ELSE a - 1
    IN IF i < 0 THEN -r ELSE r

\* format!("Device/{}", reading.device_id)
DeviceReference(r) == <<"Device", r.device_id>>

Observation(loinc, value, unit, r, patient) ==
    [resourceType |-> "Observation", status |-> "final", code |-> loinc,
     subject |-> patient, effectiveDateTime |-> r.reading_timestamp,
     value |-> value, unit |-> unit, device |-> DeviceReference(r)]

\* fhir_service.rs 19-51, 54-86, 89-121
HeartRateObservation(r, patient) ==
    Observation("8867-4", AsF32(UnwrapOr(r.heart_rate, 0)), "/min", r, patient)
Spo2Observation(r, patient) ==
    Observation("2708-6", AsF32(UnwrapOr(r.spo2, 0)), "%", r, patient)
TemperatureObservation(r, patient) ==
    Observation("8310-5", UnwrapOr(r.temperature, 0), "Cel", r, patient)

\* an entry for every vital, absent ones included (a variant C29 rules out)
CreateObservationBundleAll(r, patient) ==
    [resourceType |-> "Bundle", type |-> "collection",
     entry |-> << [resource |-> HeartRateObservation(r, patient)],
                  [resource |-> Spo2Observation(r, patient)],
                  [resource |-> TemperatureObservation(r, patient)] >>]

\* create_observation_bundle, fhir_service.rs 127-167
CreateObservationBundle(r, patient) ==
    [resourceType |-> "Bundle", type |-> "collection",
     entry |->
        (IF IsSome(r.heart_rate)
         THEN << [resource |-> HeartRateObservation(r, patient)] >> ELSE <<>>)
        \o (IF IsSome(r.spo2)
            THEN << [resource |-> Spo2Observation(r, patient)] >> ELSE <<>>)
        \o (IF IsSome(r.temperature)
            THEN << [resource |-> TemperatureObservation(r, patient)] >> ELSE <<>>)]

(***************************************************************************)
(* The devices table.  Devices are onboarded out of band; the model fixes  *)
(* two active devices and a deactivated one; TEST-DEVICE-003 names no row. *)
(***************************************************************************)
Devices ==
    { [id |-> "uuid-1", device_id |-> "TEST-DEVICE-001", is_active |-> TRUE],
      [id |-> "uuid-2", device_id |-> "TEST-DEVICE-002", is_active |-> FALSE],
      [id |-> "uuid-4", device_id |-> "TEST-DEVICE-004", is_active |-> TRUE] }

\* SELECT * FROM devices WHERE device_id = $1 AND is_active = true
\* (fetch_one: Err when no row matches or the database fails)
\* the lookup without "AND is_active = true" (a variant C6 rules out)
FindAnyDevice(deviceId, dbOk) ==
    LET rows == {d \in Devices : d.device_id = deviceId}
    IN IF dbOk /\ rows # {} THEN Some(CHOOSE d \in rows : TRUE) ELSE None

FindActiveDevice(deviceId, dbOk) ==
    LET rows == {d \in Devices : d.device_id = deviceId /\ d.is_active}
    IN IF dbOk /\ rows # {} THEN Some(CHOOSE d \in rows : TRUE) ELSE None

(***************************************************************************)
(* Bearer tokens (auth.rs).  A token is its claims together with the key   *)
(* that signed it.                                                         *)
(***************************************************************************)
JwtSecret == "test_secret_key"
ExpirationHours == 24
\* jsonwebtoken's Validation::default(): exp is checked with 60 s of leeway
Leeway == 60

Token(jti, user, iat, key) ==
    [jti |-> jti, user_id |-> user, sub |-> user, role |-> "viewer",
     iat |-> iat, exp |-> iat + ExpirationHours * 3600, key |-> key]

\* validate_token that also asks for an active user row (a variant C39
\* rules out)
ValidateTokenOfActiveUser(tok, nowT) ==
    /\ tok.key = JwtSecret /\ tok.exp >= nowT - Leeway
    /\ \E u \in users : u.id = tok.user_id /\ u.is_active

\* validate_token: signature and expiry only
ValidateToken(tok, nowT) ==
    tok.key = JwtSecret /\ tok.exp >= nowT - Leeway

\* is_token_revoked without the test of expires_at (a variant C18 rules out)
IsTokenRevokedEver(jti, rows, nowT) ==
    \E r \in rows : r.jti = jti

\* is_token_revoked without the test of jti: any live row revokes every
\* token (a variant C37 rules out)
IsTokenRevokedAny(jti, rows, nowT) ==
    \E r \in rows : r.expires_at > nowT

\* is_token_revoked: EXISTS(... WHERE jti = $1 AND expires_at > now())
IsTokenRevoked(jti, rows, nowT) ==
    \E r \in rows : r.jti = jti /\ r.expires_at > nowT

\* extract_bearer_token: the header must start with "Bearer "
ExtractBearerToken(hdr) ==
    IF IsSome(hdr) /\ Get(hdr).scheme = "Bearer" THEN Some(Get(hdr).token)
    ELSE None

\* is_token_revoked(..).await.unwrap_or(false): a failed lookup counts as
\* "not revoked"
RevokedOrDefault(jti, rows, nowT, dbOk) ==
    IF dbOk THEN IsTokenRevoked(jti, rows, nowT) ELSE FALSE

\* the bearer gate of get_latest_vitals / export_fhir_bundle
\* (handlers.rs 337-351 and 399-413): 0 when the request may proceed
BearerGate(hdr, rows, nowT, dbOk) ==
    LET t == ExtractBearerToken(hdr) IN
    IF ~IsSome(t) THEN Verdict(401, "Missing token")
    ELSE IF ~ValidateToken(Get(t), nowT) THEN Verdict(401, "Invalid token")
    ELSE IF RevokedOrDefault(Get(t).jti, rows, nowT, dbOk)
         THEN Verdict(401, "Token revoked")
    ELSE Pass

(***************************************************************************)
(* Device requests the model submits.                                      *)
(***************************************************************************)
Vitals(hr, spo2, temp, ts) ==
    [heartRate |-> hr, spo2 |-> spo2, temperature |-> temp, timestamp |-> ts]

DeviceRequest(raw, dev, ts, sig) == [raw |-> raw, dev |-> dev, ts |-> ts, sig |-> sig]

\* a request signed by a device that holds `key`, over the bytes it sends
Signed(key, f, form, devId, tsv) ==
    DeviceRequest(RawBody(f, form), Some(devId), Some(TsHeader(tsv, "dec")),
        Some(ClientSignature(key, TsHeader(tsv, "dec"), RawBody(f, form))))

NormalVitals(ts) == Vitals(72, 98, 368, ts)
CriticalSpo2Vitals(ts) == Vitals(75, 85, 368, ts)
BradyHypoxVitals(ts) == Vitals(30, 85, 368, ts)
OutOfRangeVitals(ts) == Vitals(301, 98, 368, ts)

IngestInputs(nowT) ==
    { Signed(DeviceSecret, NormalVitals(nowT), "compact", "TEST-DEVICE-001", nowT),
      Signed(DeviceSecret, CriticalSpo2Vitals(nowT), "compact", "TEST-DEVICE-001", nowT),
      Signed(DeviceSecret, BradyHypoxVitals(nowT), "compact", "TEST-DEVICE-001", nowT),
      Signed(DeviceSecret, OutOfRangeVitals(nowT), "compact", "TEST-DEVICE-001", nowT),
      Signed(DeviceSecret, NormalVitals(nowT), "compact", "TEST-DEVICE-001", nowT - 120),
      Signed(DeviceSecret, NormalVitals(nowT), "compact", "TEST-DEVICE-002", nowT),
      Signed(DeviceSecret, NormalVitals(nowT), "compact", "TEST-DEVICE-003", nowT),
      \* body altered in transit: the signature is the one of another body
      [Signed(DeviceSecret, NormalVitals(nowT), "compact", "TEST-DEVICE-001", nowT)
          EXCEPT !.raw = RawBody(CriticalSpo2Vitals(nowT), "compact")],
      [Signed(DeviceSecret, NormalVitals(nowT), "compact", "TEST-DEVICE-001", nowT)
          EXCEPT !.dev = None] }

(***************************************************************************)
(* device_ingest (handlers.rs 204-328), one worker per element of          *)
(* IngestProcs.                                                            *)
(***************************************************************************)
IngestProcs == {"w1", "w2"}

\* clean: no call of the request has failed so far; before: the number of
\* sensor_readings rows when the request arrived (both are history fields)
IdleIngest ==
    [pc |-> "idle", req |-> None, device |-> None, rid |-> 0,
     status |-> 0, why |-> "", clean |-> TRUE, before |-> 0]

Body(p) == ParseBody(Get(ing[p].req).raw)

\* every row attributed to the first device (a variant C36 rules out)
ReadingRowOfFirstDevice(id, device, f) ==
    [id |-> id, device_id |-> "uuid-1", heart_rate |-> Some(f.heartRate),
     spo2 |-> Some(f.spo2), temperature |-> Some(f.temperature),
     reading_timestamp |-> f.timestamp, quality_score |-> None]

\* the row INSERT INTO sensor_readings ... RETURNING * gives back
ReadingRow(id, device, f) ==
    [id |-> id, device_id |-> device.id, heart_rate |-> Some(f.heartRate),
     spo2 |-> Some(f.spo2), temperature |-> Some(f.temperature),
     reading_timestamp |-> f.timestamp, quality_score |-> None]

AnalysisRow(rid, ml) ==
    [sensor_reading_id |-> rid, anomaly_detected |-> ml.anomaly_detected,
     anomaly_score |-> ml.anomaly_score, classification |-> ml.classification,
     alert_level |-> ml.alert_level]

FhirRow(rid, bundle) == [sensor_reading_id |-> rid, resource |-> bundle]

\* the snapshot without the alert level (a variant C34 rules out)
LatestVitalsNoAlert(rid, f, ml) ==
    [rid |-> rid, heartRate |-> f.heartRate, spo2 |-> f.spo2,
     temperature |-> f.temperature, timestamp |-> f.timestamp,
     quality_score |-> Some(ml.quality_score), ml_alert |-> None]

\* handlers.rs 305-312; rid is a history field naming the request's reading
LatestVitals(rid, f, ml) ==
    [rid |-> rid, heartRate |-> f.heartRate, spo2 |-> f.spo2,
     temperature |-> f.temperature, timestamp |-> f.timestamp,
     quality_score |-> Some(ml.quality_score), ml_alert |-> GenerateAlert(ml)]

MlResult(p) == AnalyzeReading(readings[ing[p].rid])
Snapshot(p) == LatestVitals(ing[p].rid, Body(p), MlResult(p))

Finish(p, status, why) ==
    ing' = [ing EXCEPT ![p].pc = "done", ![p].status = status, ![p].why = why]

\* handlers.rs 209-245: validation, headers, replay window, signature
IngestStart(p, req) ==
    /\ ing[p].pc = "idle"
    /\ LET v == IngestFront(req, now, build) IN
       ing' = [ing EXCEPT ![p] =
                 IF v = Pass
                 THEN [IdleIngest EXCEPT !.pc = "lookup", !.req = Some(req),
                                         !.before = Len(readings)]
                 ELSE [IdleIngest EXCEPT !.pc = "done", !.req = Some(req),
                                         !.status = v.status, !.why = v.why,
                                         !.before = Len(readings)]]
    /\ UNCHANGED <<now, build, sessVars, authVars, storeVars, cacheVars, streamVars, verifyVars>>

\* handlers.rs 247-256
DeviceLookup(p, dbOk) ==
    /\ ing[p].pc = "lookup"
    /\ LET d == FindActiveDevice(Get(Get(ing[p].req).dev), dbOk) IN
       IF IsSome(d)
       THEN ing' = [ing EXCEPT ![p].pc = "insert", ![p].device = d]
       ELSE Finish(p, 401, "Unknown device")
    /\ UNCHANGED <<now, build, sessVars, authVars, storeVars, cacheVars, streamVars, verifyVars>>

\* handlers.rs 258-274; maxRows caps the table in the model
InsertReading(p, dbOk, maxRows) ==
    /\ ing[p].pc = "insert"
    /\ Len(readings) < maxRows
    /\ IF dbOk
       THEN /\ readings' = Append(readings,
                   ReadingRow(Len(readings) + 1, Get(ing[p].device), Body(p)))
            /\ ing' = [ing EXCEPT ![p].pc = "analysis", ![p].rid = Len(readings) + 1]
       ELSE /\ Finish(p, 500, "Database error")
            /\ UNCHANGED readings
    /\ UNCHANGED <<now, build, sessVars, authVars, analyses, fhir, cacheVars, streamVars, verifyVars>>

\* a failed analysis insert ends the request (a variant C9 rules out)
InsertAnalysisOrFail(p, dbOk) ==
    /\ ing[p].pc = "analysis"
    /\ IF dbOk
       THEN /\ analyses' = Append(analyses, AnalysisRow(ing[p].rid, MlResult(p)))
            /\ ing' = [ing EXCEPT ![p].pc = "fhir"]
       ELSE /\ Finish(p, 500, "Database error")
            /\ UNCHANGED analyses
    /\ UNCHANGED <<now, build, sessVars, authVars, readings, fhir, cacheVars, streamVars, verifyVars>>

\* handlers.rs 276-291: the insert's result is dropped (let _ =)
InsertAnalysis(p, dbOk) ==
    /\ ing[p].pc = "analysis"
    /\ analyses' = IF dbOk
                   THEN Append(analyses, AnalysisRow(ing[p].rid, MlResult(p)))
                   ELSE analyses
    /\ ing' = [ing EXCEPT ![p].pc = "fhir", ![p].clean = @ /\ dbOk]
    /\ UNCHANGED <<now, build, sessVars, authVars, readings, fhir, cacheVars, streamVars, verifyVars>>

\* handlers.rs 293-302
InsertFhir(p, dbOk) ==
    /\ ing[p].pc = "fhir"
    /\ fhir' = IF dbOk
               THEN Append(fhir, FhirRow(ing[p].rid,
                        CreateObservationBundle(readings[ing[p].rid], None)))
               ELSE fhir
    /\ ing' = [ing EXCEPT ![p].pc = "lock", ![p].clean = @ /\ dbOk]
    /\ UNCHANGED <<now, build, sessVars, authVars, readings, analyses, cacheVars, streamVars, verifyVars>>

\* handlers.rs 315: state.redis.write().await
IngestLock(p) ==
    /\ ing[p].pc = "lock"
    /\ redisLock = None
    /\ redisLock' = Some(p)
    /\ ing' = [ing EXCEPT ![p].pc = "cache"]
    /\ UNCHANGED <<now, build, sessVars, authVars, storeVars, cacheLatest, cacheRecent, streamVars, verifyVars>>

MaxRecentReadings == 100

\* redis_cache.rs 23-37: SET, LPUSH, LTRIM; `fail` is the command that
\* fails (0 = none, 1 = SET, 2 = LPUSH, 3 = LTRIM)
SetLatestVitals(v, fail) ==
    /\ cacheLatest' = IF fail = 1 THEN cacheLatest ELSE Some(v)
    /\ cacheRecent' =
          IF fail \in {1, 2} THEN cacheRecent
          ELSE IF fail = 3 THEN <<v>> \o cacheRecent
          ELSE SubSeq(<<v>> \o cacheRecent, 1,
                      Min(Len(cacheRecent) + 1, MaxRecentReadings))

\* handlers.rs 316-317: set_latest_vitals, then the guard is dropped
IngestCache(p, fail) ==
    /\ ing[p].pc = "cache"
    /\ redisLock = Some(p)
    /\ SetLatestVitals(Snapshot(p), fail)
    /\ redisLock' = None
    /\ ing' = [ing EXCEPT ![p].pc = "vitals", ![p].clean = @ /\ (fail = 0)]
    /\ UNCHANGED <<now, build, sessVars, authVars, storeVars, streamVars, verifyVars>>

\* every event is sent twice (a variant C7 rules out)
PublishTwice(kind, rid, data) ==
    chan' = chan \o << [type |-> kind, rid |-> rid, data |-> data],
                       [type |-> kind, rid |-> rid, data |-> data] >>

\* sse.rs 85-94: Sender::send; an Err (no receiver) is dropped
Publish(kind, rid, data) == chan' = Append(chan, [type |-> kind, rid |-> rid, data |-> data])

\* the alert is sent ahead of the vitals (a variant C8 rules out)
AlertBeforeVitals(p) ==
    /\ ing[p].pc = "vitals"
    /\ LET vitals == [type |-> "vitals", rid |-> ing[p].rid, data |-> Snapshot(p)]
           alert == GenerateAlert(MlResult(p))
       IN chan' = IF IsSome(alert)
                  THEN chan \o << [type |-> "alert", rid |-> ing[p].rid,
                                    data |-> [level |-> Get(alert)]], vitals >>
                  ELSE Append(chan, vitals)
    /\ Finish(p, 200, "accepted")
    /\ UNCHANGED <<now, build, sessVars, authVars, storeVars, cacheVars, subs, verifyVars>>

\* handlers.rs 319-320, and 327 when no alert follows
IngestBroadcastVitals(p) ==
    /\ ing[p].pc = "vitals"
    /\ Publish("vitals", ing[p].rid, Snapshot(p))
    /\ IF IsSome(GenerateAlert(MlResult(p)))
       THEN ing' = [ing EXCEPT ![p].pc = "alert"]
       ELSE Finish(p, 200, "accepted")
    /\ UNCHANGED <<now, build, sessVars, authVars, storeVars, cacheVars, subs, verifyVars>>

\* handlers.rs 322-327
IngestBroadcastAlert(p) ==
    /\ ing[p].pc = "alert"
    /\ Publish("alert", ing[p].rid, [level |-> Get(GenerateAlert(MlResult(p)))])
    /\ Finish(p, 200, "accepted")
    /\ UNCHANGED <<now, build, sessVars, authVars, storeVars, cacheVars, subs, verifyVars>>

\* the worker takes the next request
IngestReturn(p) ==
    /\ ing[p].pc = "done"
    /\ ing' = [ing EXCEPT ![p] = IdleIngest]
    /\ UNCHANGED <<now, build, sessVars, authVars, storeVars, cacheVars, streamVars, verifyVars>>

(***************************************************************************)
(* Live stream (sse.rs).  The broadcaster is a tokio broadcast channel:    *)
(* `chan` is the sequence of events sent; a receiver created by            *)
(* subscribe() sees the events sent after it, through its own cursor.      *)
(***************************************************************************)
Streams == {"s1", "s2"}

\* an item of the response body: a heartbeat, or the event at a position
\* of the channel's history (a positive number)
Heartbeat == 0

\* out is the response body sent so far; lagged is a history field: the
\* stream was ended by a Lagged error
ClosedStream ==
    [state |-> "closed", bearerOk |-> FALSE, start |-> 0, got |-> 0, lagged |-> FALSE,
     out |-> <<>>]

Bearer(tok) == Some([scheme |-> "Bearer", token |-> tok])

\* stream_vitals, sse.rs 21-33: subscribe, then the initial heartbeat.
\* The handler takes the broadcaster only and never reads `hdr`, the
\* sse.rs 24-34: subscribe, and the heartbeat the body starts with.
\* Authorization header the client sent; bearerOk is a history field that
\* records whether the bearer gate of the other endpoints would let it pass.
StreamConnect(s, hdr) ==
    /\ subs[s].state = "closed"
    /\ subs' = [subs EXCEPT ![s] =
                  [state |-> "open",
                   bearerOk |-> BearerGate(hdr, revoked, now, TRUE) = Pass,
                   start |-> Len(chan), got |-> 0, lagged |-> FALSE,
                   out |-> <<Heartbeat>>]]
    /\ UNCHANGED <<now, build, sessVars, authVars, ing, storeVars, cacheVars, chan, verifyVars>>

Cursor(s) == subs[s].start + subs[s].got

RECURSIVE PowerOfTwoFrom(_, _)
PowerOfTwoFrom(p, n) == IF p >= n THEN p ELSE PowerOfTwoFrom(2 * p, n)

\* broadcast::channel(capacity) keeps capacity.next_power_of_two() slots
NextPowerOfTwo(n) == PowerOfTwoFrom(1, n)

\* events the channel of create_broadcaster retains for a slow receiver
BufferSlots == NextPowerOfTwo(ChannelCapacity)

\* stream_vitals that goes on after Lagged from the oldest retained event (a variant C20 rules out)
StreamRecvResuming(s) ==
    /\ subs[s].state = "open"
    /\ Cursor(s) < Len(chan)
    /\ subs' = [subs EXCEPT ![s] =
                  IF Len(chan) - Cursor(s) > BufferSlots
                  THEN [@ EXCEPT !.got = Len(chan) - BufferSlots - subs[s].start]
                  ELSE [@ EXCEPT !.got = @ + 1, !.out = Append(@, Cursor(s) + 1)]]
    /\ UNCHANGED <<now, build, sessVars, authVars, ing, storeVars, cacheVars, chan, verifyVars>>

\* sse.rs 52-72: the next event of the subscription, or Lagged -> break
StreamRecv(s) ==
    /\ subs[s].state = "open"
    /\ Cursor(s) < Len(chan)
    /\ subs' = [subs EXCEPT ![s] =
                  IF Len(chan) - Cursor(s) > BufferSlots
                  THEN [ClosedStream EXCEPT !.lagged = TRUE]
                  ELSE [@ EXCEPT !.got = @ + 1, !.out = Append(@, Cursor(s) + 1)]]
    /\ UNCHANGED <<now, build, sessVars, authVars, ing, storeVars, cacheVars, chan, verifyVars>>

\* the client goes away: the stream and its receiver are dropped
StreamDisconnect(s) ==
    /\ subs[s].state = "open"
    /\ subs' = [subs EXCEPT ![s] = ClosedStream]
    /\ UNCHANGED <<now, build, sessVars, authVars, ing, storeVars, cacheVars, chan, verifyVars>>

\* events a stream has forwarded to its client
Delivered(s) == SubSeq(chan, subs[s].start + 1, Cursor(s))

(***************************************************************************)
(* Spec: ingestion workers and stream connections.  The token tables are   *)
(* those left by one login and one logout (see SpecAuth).                  *)
(***************************************************************************)
\* Claims.jti is a fresh uuid per token
Jti(n) == <<"jti", n>>

TokenA == Token(Jti(1), "user-1", 0, JwtSecret)
TokenB == Token(Jti(2), "user-1", 0, JwtSecret)
ForgedToken == Token(Jti(0), "user-1", 0, "attacker_key")

\* the row revoke_token inserts
RevokedRow(claims) ==
    [jti |-> claims.jti, user_id |-> claims.user_id, expires_at |-> claims.exp]

\* revoked_tokens holds one row for a token id: a second row is refused
JtiTaken(jti, rows) == \E r \in rows : r.jti = jti

\* revoke_token that takes the row away when the token id is there (a variant C19 rules out)
RevokeTokenToggle(claims, rows, dbOk) ==
    IF ~dbOk THEN [ok |-> FALSE, rows |-> rows]
    ELSE IF JtiTaken(claims.jti, rows)
    THEN [ok |-> TRUE, rows |-> {r \in rows : r.jti # claims.jti}]
    ELSE [ok |-> TRUE, rows |-> rows \cup {RevokedRow(claims)}]

\* revoke_token, auth.rs 68-79: Ok and the row inserted, or Err and the
\* table as it was
RevokeToken(claims, rows, dbOk) ==
    IF dbOk /\ ~JtiTaken(claims.jti, rows)
    THEN [ok |-> TRUE, rows |-> rows \cup {RevokedRow(claims)}]
    ELSE [ok |-> FALSE, rows |-> rows]

StreamHeaders == {None, Bearer(TokenA), Bearer(TokenB), Bearer(ForgedToken)}

NoVerdict == Verdict(-1, "")

Init ==
    /\ now = 0
    /\ build = "release"
    /\ issued = {TokenA, TokenB}
    /\ revoked = {RevokedRow(TokenB)}
    /\ loggedOut = {TokenB.jti}
    /\ cli = <<>>
    /\ users = {} /\ ses = <<>> /\ hist = <<>>
    /\ ing = [p \in IngestProcs |-> IdleIngest]
    /\ readings = <<>>
    /\ analyses = <<>>
    /\ fhir = <<>>
    /\ cacheLatest = None
    /\ cacheRecent = <<>>
    /\ redisLock = None
    /\ chan = <<>>
    /\ subs = [s \in Streams |-> ClosedStream]
    /\ vin = None
    /\ vout = NoVerdict

\* one step of worker p, on requests drawn from `inputs`, with database
\* calls that succeed as `dbs` allows and cache commands failing as `fails`
IngestStep(p, inputs, dbs, fails, maxRows) ==
    \/ \E req \in inputs : IngestStart(p, req)
    \/ \E dbOk \in dbs : DeviceLookup(p, dbOk)
    \/ \E dbOk \in dbs : InsertReading(p, dbOk, maxRows)
    \/ \E dbOk \in dbs : InsertAnalysis(p, dbOk)
    \/ \E dbOk \in dbs : InsertFhir(p, dbOk)
    \/ IngestLock(p)
    \/ \E fail \in fails : IngestCache(p, fail)
    \/ IngestBroadcastVitals(p)
    \/ IngestBroadcastAlert(p)
    \/ IngestReturn(p)

StreamStep(s, hdrs) ==
    \/ \E hdr \in hdrs : StreamConnect(s, hdr)
    \/ StreamRecv(s)
    \/ StreamDisconnect(s)

Next ==
    \/ IngestStep("w1", IngestInputs(now), BOOLEAN, 0..2, MaxReadings)
    \/ StreamStep("s1", StreamHeaders)

Spec == Init /\ [][Next]_vars

(***************************************************************************)
(* SpecVerify: the front of device_ingest applied to one request at a      *)
(* time, over every i64 timestamp of the modelled width, every form of     *)
(* the body bytes and every kind of signature, in both builds.             *)
(***************************************************************************)
VerifyRequest(nowT, form, v, tf, sg) ==
    LET raw == RawBody(NormalVitals(nowT), form)
        tsh == TsHeader(v, tf)
        sig == CASE sg = "own" -> Some(ClientSignature(DeviceSecret, tsh, raw))
                 [] sg = "reserialized" ->
                      Some(ExpectedSignature(DeviceSecret, v, ParseBody(raw)))
                 [] sg = "otherkey" -> Some(ClientSignature("other_secret", tsh, raw))
                 [] OTHER -> None
    IN DeviceRequest(raw, Some("TEST-DEVICE-001"), Some(tsh), sig)

\* the handler's verdict on `req` at the current time
VerifySubmit(req) ==
    /\ vin = None
    /\ vin' = Some(req)
    /\ vout' = IngestFront(req, now, build)
    /\ UNCHANGED <<now, build, sessVars, authVars, ing, storeVars, cacheVars, streamVars>>

\* the response has been sent; the next request can be examined
VerifyReturn ==
    /\ vin # None
    /\ vin' = None
    /\ vout' = NoVerdict
    /\ UNCHANGED <<now, build, sessVars, authVars, ing, storeVars, cacheVars, streamVars>>

InitVerify ==
    /\ now \in {0, ReplayWindow}
    /\ build \in {"debug", "release"}
    /\ issued = {} /\ revoked = {} /\ loggedOut = {}
    /\ cli = <<>>
    /\ users = {} /\ ses = <<>> /\ hist = <<>>
    /\ ing = [p \in IngestProcs |-> IdleIngest]
    /\ readings = <<>> /\ analyses = <<>> /\ fhir = <<>>
    /\ cacheLatest = None /\ cacheRecent = <<>> /\ redisLock = None
    /\ chan = <<>>
    /\ subs = [s \in Streams |-> ClosedStream]
    /\ vin = None
    /\ vout = NoVerdict

\* timestamps at and around the edges of the replay window
ReplayEdges(nowT) ==
    { nowT - ReplayWindow - 1, nowT - ReplayWindow, nowT,
      nowT + ReplayWindow, nowT + ReplayWindow + 1 }

NextVerify ==
    \/ VerifyReturn
    \/ \E v \in I64Min..I64Max, sg \in {"own", "absent"} :
          VerifySubmit(VerifyRequest(now, "compact", v, "dec", sg))
    \/ \E form \in BodyForms \cup {"malformed"}, v \in ReplayEdges(now),
          tf \in {"dec", "plus", "junk"},
          sg \in {"own", "reserialized", "otherkey", "absent"} :
          VerifySubmit(VerifyRequest(now, form, v, tf, sg))

SpecVerify == InitVerify /\ [][NextVerify]_vars

(***************************************************************************)
(* SpecAnalyze: analyze_reading and generate_alert applied to one input:   *)
(* every reading of the normal range under the configuration of the        *)
(* tests, readings at the edges of every rule (values absent or zero       *)
(* included) under several configurations, and generate_alert on analysis  *)
(* results of any shape.                                                   *)
(***************************************************************************)
\* create_test_reading, ml_service.rs 205-217, with optional vitals
TestReading(hr, spo2, temp) ==
    [heart_rate |-> hr, spo2 |-> spo2, temperature |-> temp]

NormalRangeReadings ==
    { TestReading(Some(h), Some(sp), Some(t)) :
        h \in CriticalHrLow..CriticalHrHigh,
        sp \in CriticalSpo2Low..Spo2Max,
        t \in 355..380 }

EdgeReadings ==
    { TestReading(h, sp, t) :
        h \in {None} \cup {Some(x) : x \in {0, 1, 33, 34, 39, 40, 72, 106, 107,
                                           180, 181, 250, 251, 300}},
        sp \in {None} \cup {Some(x) : x \in {0, 1, 87, 88, 90, 91, 98, 100}},
        t \in {None} \cup {Some(x) : x \in {0, 250, 299, 300, 354, 355, 368,
                                           380, 381, 430, 431, 450}} }

MlConfigs ==
    { [TestMlConfig EXCEPT !.anomaly_threshold = th, !.enable_alerts = en] :
        th \in {0, 25, 50, AnomalyThreshold, 100}, en \in BOOLEAN }

\* MlAnalysisResult values handed to generate_alert directly
AnalysisResults ==
    { [anomaly_detected |-> d, anomalies |-> {}, raw |-> 2 * sc,
       anomaly_score |-> sc, classification |-> "critical",
       alert_level |-> lv, quality_score |-> 100] :
        d \in BOOLEAN,
        sc \in {0, 25, AnomalyThreshold - 1, AnomalyThreshold, 100},
        lv \in {"none", "low", "medium", "high", "critical"} }

AnalyzeInput(op, cfg, reading, result) ==
    [op |-> op, cfg |-> cfg, reading |-> reading, result |-> result]

InitAnalyze ==
    /\ now = 0
    /\ build = "release"
    /\ issued = {} /\ revoked = {} /\ loggedOut = {}
    /\ cli = <<>>
    /\ users = {} /\ ses = <<>> /\ hist = <<>>
    /\ ing = [p \in IngestProcs |-> IdleIngest]
    /\ readings = <<>> /\ analyses = <<>> /\ fhir = <<>>
    /\ cacheLatest = None /\ cacheRecent = <<>> /\ redisLock = None
    /\ chan = <<>>
    /\ subs = [s \in Streams |-> ClosedStream]
    /\ \/ \E r \in NormalRangeReadings :
             vin = Some(AnalyzeInput("analyze", TestMlConfig, Some(r), None))
       \/ \E r \in EdgeReadings, cfg \in MlConfigs :
             vin = Some(AnalyzeInput("analyze", cfg, Some(r), None))
       \/ \E a \in AnalysisResults, cfg \in MlConfigs :
             vin = Some(AnalyzeInput("alert", cfg, None, Some(a)))
    /\ vout = NoVerdict

\* handlers.rs 277 and 323: analyze_reading, then generate_alert on its result
Analyze ==
    /\ vout = NoVerdict
    /\ Get(vin).op = "analyze"
    /\ LET a == AnalyzeWith(Get(vin).cfg, Get(Get(vin).reading)) IN
       vout' = [analysis |-> a, alert |-> GenerateAlertWith(Get(vin).cfg, a)]
    /\ UNCHANGED <<now, build, sessVars, authVars, ing, storeVars, cacheVars, streamVars, vin>>

\* generate_alert on a given result
Alert ==
    /\ vout = NoVerdict
    /\ Get(vin).op = "alert"
    /\ vout' = [analysis |-> Get(Get(vin).result),
                alert |-> GenerateAlertWith(Get(vin).cfg, Get(Get(vin).result))]
    /\ UNCHANGED <<now, build, sessVars, authVars, ing, storeVars, cacheVars, streamVars, vin>>

NextAnalyze == Analyze \/ Alert

SpecAnalyze == InitAnalyze /\ [][NextAnalyze]_vars

(***************************************************************************)
(* SpecAuth: login, logout and the bearer-protected reads, with a clock    *)
(* that moves through the instants around a token's expiry, and database   *)
(* calls that can fail.                                                    *)
(***************************************************************************)
Clients == {"c1", "c2"}

\* seconds a token lives: expiration_hours * 3600
Lifetime == ExpirationHours * 3600

\* the instants the clock visits: issue time, the last second before
\* expiry, expiry, the last second of the validator's leeway, and after
Instants ==
    {0, Lifetime - 1, Lifetime, Lifetime + Leeway, Lifetime + Leeway + 1}

IdleClient ==
    [pc |-> "idle", kind |-> "", tok |-> None, status |-> 0, why |-> "",
     data |-> "none", afterLogout |-> FALSE, lookup |-> "none",
     wasRevoked |-> FALSE, body |-> None, cacheOk |-> TRUE, dbOk |-> TRUE,
     query |-> None]

Tick ==
    /\ \E t \in Instants :
          /\ t > now
          /\ \A u \in Instants : u > now => t <= u
          /\ now' = t
    /\ UNCHANGED <<build, sessVars, authVars, ing, storeVars, cacheVars, streamVars, verifyVars>>

\* login with valid credentials, handlers.rs 165-177: a token and a refresh
\* token, same claims, each with its own jti
Login(user) ==
    /\ Cardinality(issued) < 2 * MaxLogins
    /\ LET n == Cardinality(issued) IN
       issued' = issued \cup { Token(Jti(n + 1), user, now, JwtSecret),
                               Token(Jti(n + 2), user, now, JwtSecret) }
    /\ UNCHANGED <<now, build, sessVars, revoked, loggedOut, cli, ing, storeVars,
                   cacheVars, streamVars, verifyVars>>

\* Authorization headers a client can send
ClientHeaders ==
    {None, Bearer(ForgedToken)} \cup {Bearer(t) : t \in issued}

ClientDone(c, status, why, data) ==
    [cli[c] EXCEPT !.pc = "done", !.status = status, !.why = why, !.data = data]

\* the part of logout / get_latest_vitals / export_fhir_bundle before the
\* first await: extract_bearer_token and validate_token.  afterLogout is a
\* history field: a logout bearing this token has already returned 200.
ClientStart(c, kind, hdr) ==
    /\ cli[c].pc = "idle"
    /\ LET t == ExtractBearerToken(hdr) IN
       cli' = [cli EXCEPT ![c] =
                IF ~IsSome(t)
                THEN [IdleClient EXCEPT !.pc = "done", !.kind = kind,
                        !.status = 401, !.why = "Missing token"]
                ELSE IF ~ValidateToken(Get(t), now)
                THEN [IdleClient EXCEPT !.pc = "done", !.kind = kind,
                        !.tok = t, !.status = 401, !.why = "Invalid token",
                        !.afterLogout = Get(t).jti \in loggedOut]
                ELSE [IdleClient EXCEPT
                        !.pc = IF kind = "logout" THEN "revoke" ELSE "revcheck",
                        !.kind = kind, !.tok = t,
                        !.afterLogout = Get(t).jti \in loggedOut]]
    /\ UNCHANGED <<now, build, sessVars, issued, revoked, loggedOut, ing, storeVars,
                   cacheVars, streamVars, verifyVars>>

\* logout, handlers.rs 196-199: let _ = revoke_token(..); then 200
\* wasRevoked is a history field: the token was revoked when the request
\* called revoke_token.
ClientRevoke(c, dbOk) ==
    /\ cli[c].pc = "revoke"
    /\ revoked' = RevokeToken(Get(cli[c].tok), revoked, dbOk).rows
    /\ loggedOut' = loggedOut \cup {Get(cli[c].tok).jti}
    /\ cli' = [cli EXCEPT ![c] =
                [ClientDone(c, 200, "logged_out", "none") EXCEPT
                   !.wasRevoked = IsTokenRevoked(Get(cli[c].tok).jti, revoked, now)]]
    /\ UNCHANGED <<now, build, sessVars, issued, ing, storeVars, cacheVars, streamVars,
                   verifyVars>>

\* is_token_revoked(..).await.unwrap_or(false), handlers.rs 349 and 411.
\* lookup and wasRevoked are history fields: how the lookup ended and
\* whether the token was revoked when it was made.
ClientRevCheck(c, dbOk) ==
    /\ cli[c].pc = "revcheck"
    /\ LET jti == Get(cli[c].tok).jti
           seen == [cli[c] EXCEPT
                      !.lookup = IF dbOk THEN "ok" ELSE "error",
                      !.wasRevoked = IsTokenRevoked(jti, revoked, now)]
       IN cli' = [cli EXCEPT ![c] =
                   IF RevokedOrDefault(jti, revoked, now, dbOk)
                   THEN [seen EXCEPT !.pc = "done", !.status = 401,
                                     !.why = "Token revoked"]
                   ELSE [seen EXCEPT !.pc = "serve"]]
    /\ UNCHANGED <<now, build, sessVars, issued, revoked, loggedOut, ing, storeVars,
                   cacheVars, streamVars, verifyVars>>

\* the rest of get_latest_vitals (handlers.rs 353-388: cache, then the
\* newest row, then the zero snapshot; always 200) and of
\* export_fhir_bundle (handlers.rs 415-466: 200 with a bundle, or 500)
ClientServe(c, dbOk) ==
    /\ cli[c].pc = "serve"
    /\ cli[c].kind = "latest" => redisLock = None
    /\ cli' = [cli EXCEPT ![c] =
                IF cli[c].kind = "latest" THEN ClientDone(c, 200, "", "vitals")
                ELSE IF dbOk THEN ClientDone(c, 200, "", "bundle")
                ELSE ClientDone(c, 500, "Failed to fetch readings", "none")]
    /\ UNCHANGED <<now, build, sessVars, issued, revoked, loggedOut, ing, storeVars,
                   cacheVars, streamVars, verifyVars>>

ClientReturn(c) ==
    /\ cli[c].pc = "done"
    /\ cli' = [cli EXCEPT ![c] = IdleClient]
    /\ UNCHANGED <<now, build, sessVars, issued, revoked, loggedOut, ing, storeVars,
                   cacheVars, streamVars, verifyVars>>

InitAuth ==
    /\ now = 0
    /\ build = "release"
    /\ issued = {} /\ revoked = {} /\ loggedOut = {}
    /\ cli = [c \in Clients |-> IdleClient]
    /\ users = {} /\ ses = <<>> /\ hist = <<>>
    /\ ing = [p \in IngestProcs |-> IdleIngest]
    /\ readings = <<>> /\ analyses = <<>> /\ fhir = <<>>
    /\ cacheLatest = None /\ cacheRecent = <<>> /\ redisLock = None
    /\ chan = <<>>
    /\ subs = [s \in Streams |-> ClosedStream]
    /\ vin = None
    /\ vout = NoVerdict

ClientStep(c) ==
    \/ \E kind \in {"latest", "export", "logout"}, hdr \in ClientHeaders :
          ClientStart(c, kind, hdr)
    \/ \E dbOk \in BOOLEAN : ClientRevoke(c, dbOk)
    \/ \E dbOk \in BOOLEAN : ClientRevCheck(c, dbOk)
    \/ \E dbOk \in BOOLEAN : ClientServe(c, dbOk)
    \/ ClientReturn(c)

NextAuth ==
    \/ Tick
    \/ Login("user-1")
    \/ \E c \in Clients : ClientStep(c)

SpecAuth == InitAuth /\ [][NextAuth]_vars

(***************************************************************************)
(* SpecSession: signup and login (handlers.rs 54-178) on the users table,  *)
(* one step per database call, with the clock of SpecAuth.  The schema     *)
(* is created by migrations that are not part of the sources; the model    *)
(* takes users.email to be unique, as the specification's data model says. *)
(***************************************************************************)
SessionProcs == {"p1", "p2"}

\* SignupRequest.password: #[validate(length(min = 8))]
MinPasswordLen == 8

\* an email as typed: a lowercase name and how it is written
Email(name, form) == [name |-> name, form |-> form]

\* #[validate(email)]: a padded or malformed address is refused
ValidEmail(e) == e.form \in {"lower", "mixed"}

\* body.email.trim().to_lowercase()
NormalizeEmail(e) == Email(e.name, "lower")

Password(text, len) == [text |-> text, len |-> len]

\* Argon2 hash of a password and its verification
HashPassword(pw) == <<"argon2", pw.text>>
VerifyPassword(pw, hash) == hash = <<"argon2", pw.text>>

UserId(n) == <<"user", n>>

UserRow(id, email, pw, active, locked) ==
    [id |-> id, email |-> email, password_hash |-> HashPassword(pw),
     role |-> "viewer", is_active |-> active, failed_login_attempts |-> 0,
     last_login_at |-> None, locked_until |-> locked]

PwAlice == Password("pw-alice", 8)
PwCarol == Password("pw-carol", 9)
PwWrong == Password("pw-wrong", 8)
PwShort == Password("pw-shrt", 7)

\* alice is active; carol is active and locked until the tokens of
\* instant 0 expire; dave was deactivated
InitialUsers ==
    { UserRow(UserId(1), Email("alice", "lower"), PwAlice, TRUE, None),
      UserRow(UserId(2), Email("carol", "lower"), PwCarol, TRUE, Some(Lifetime)),
      UserRow(UserId(3), Email("dave", "lower"), PwAlice, FALSE, None) }

IdleSession ==
    [pc |-> "idle", kind |-> "", email |-> None, password |-> None,
     user |-> None, at |-> 0, status |-> 0, why |-> "", tokens |-> {},
     raw |-> None, known |-> {}]

\* history fields of a request: the email and password as sent, and the
\* ids of the users stored when it arrived
Arrived(e, pw) ==
    [IdleSession EXCEPT !.raw = Some(<<e, pw>>), !.known = {u.id : u \in users}]

\* generate_token, auth.rs 31-46
GenerateToken(userId, email, role, nowT, jti) ==
    [jti |-> jti, user_id |-> userId, sub |-> email, role |-> role,
     iat |-> nowT, exp |-> nowT + ExpirationHours * 3600, key |-> JwtSecret]

\* token and refresh_token of one response: same claims, fresh token ids
TokenPair(u, nowT, have) ==
    { GenerateToken(u.id, u.email.name, u.role, nowT, Jti(Cardinality(have) + 1)),
      GenerateToken(u.id, u.email.name, u.role, nowT, Jti(Cardinality(have) + 2)) }

SessionDone(p, status, why) ==
    ses' = [ses EXCEPT ![p].pc = "done", ![p].status = status, ![p].why = why]

\* SELECT * FROM users WHERE email = $1
UsersByEmail(email) == {u \in users : u.email = email}

\* the unique constraint on users.email refuses the row
EmailTaken(email) == UsersByEmail(email) # {}

\* signup, handlers.rs 58-63
SignupStart(p, e, pw) ==
    /\ ses[p].pc = "idle"
    /\ hist.started < MaxSessionRequests
    /\ ses' = [ses EXCEPT ![p] =
                IF ~ValidEmail(e) \/ pw.len < MinPasswordLen
                THEN [Arrived(e, pw) EXCEPT !.pc = "done", !.kind = "signup",
                        !.status = 400, !.why = "validation"]
                ELSE [Arrived(e, pw) EXCEPT !.pc = "exists", !.kind = "signup",
                        !.email = Some(NormalizeEmail(e)), !.password = Some(pw)]]
    /\ hist' = [hist EXCEPT !.started = @ + 1]
    /\ UNCHANGED <<now, build, users, authVars, ing, storeVars, cacheVars,
                   streamVars, verifyVars>>

\* handlers.rs 65-73: a failed lookup counts as "no such user"
SignupExists(p, dbOk) ==
    /\ ses[p].pc = "exists"
    /\ IF dbOk /\ UsersByEmail(Get(ses[p].email)) # {}
       THEN SessionDone(p, 409, "User already exists")
       ELSE ses' = [ses EXCEPT ![p].pc = "insert"]
    /\ UNCHANGED <<now, build, users, hist, authVars, ing, storeVars, cacheVars,
                   streamVars, verifyVars>>

\* handlers.rs 83-111: INSERT INTO users .. RETURNING *, then the tokens
SignupInsert(p, dbOk) ==
    /\ ses[p].pc = "insert"
    /\ IF dbOk /\ ~EmailTaken(Get(ses[p].email))
       THEN LET u == UserRow(UserId(Cardinality(users) + 1),
                             Get(ses[p].email), Get(ses[p].password), TRUE, None)
            IN /\ users' = users \cup {u}
               /\ issued' = issued \cup TokenPair(u, now, issued)
               /\ ses' = [ses EXCEPT ![p].pc = "done", ![p].status = 200,
                                     ![p].why = "", ![p].user = Some(u),
                                     ![p].tokens = TokenPair(u, now, issued)]
       ELSE /\ SessionDone(p, 500, "Database error")
            /\ UNCHANGED <<users, issued>>
    /\ UNCHANGED <<now, build, hist, revoked, loggedOut, cli, ing, storeVars,
                   cacheVars, streamVars, verifyVars>>

\* login, handlers.rs 118-121
LoginStart(p, e, pw) ==
    /\ ses[p].pc = "idle"
    /\ hist.started < MaxSessionRequests
    /\ ses' = [ses EXCEPT ![p] =
                IF ~ValidEmail(e)
                THEN [Arrived(e, pw) EXCEPT !.pc = "done", !.kind = "login",
                        !.status = 400, !.why = "validation"]
                ELSE [Arrived(e, pw) EXCEPT !.pc = "lookup", !.kind = "login",
                        !.email = Some(NormalizeEmail(e)), !.password = Some(pw)]]
    /\ hist' = [hist EXCEPT !.started = @ + 1]
    /\ UNCHANGED <<now, build, users, authVars, ing, storeVars, cacheVars,
                   streamVars, verifyVars>>

\* SELECT * FROM users WHERE email = $1 AND is_active = true
ActiveUsersByEmail(email) == {u \in UsersByEmail(email) : u.is_active}

\* the lock test of IsLocked with its comparison turned round (a variant C14 rules out)
IsLockedBefore(u, nowT) == u.locked_until # None /\ Get(u.locked_until) < nowT

\* handlers.rs 136-140: locked_until > Utc::now()
IsLocked(u, nowT) == u.locked_until # None /\ Get(u.locked_until) > nowT

\* handlers.rs 123-156: the lookup, the lock test and the password test.
\* Stored hashes are written by signup only, so PasswordHash::new succeeds.
LoginLookup(p, dbOk) ==
    /\ ses[p].pc = "lookup"
    /\ IF ~dbOk \/ ActiveUsersByEmail(Get(ses[p].email)) = {}
       THEN SessionDone(p, 401, "Invalid credentials")
       ELSE LET u == CHOOSE r \in ActiveUsersByEmail(Get(ses[p].email)) : TRUE IN
            IF IsLocked(u, now)
            THEN ses' = [ses EXCEPT ![p].pc = "done", ![p].status = 403,
                                    ![p].why = "Account temporarily locked",
                                    ![p].user = Some(u), ![p].at = now]
            ELSE ses' = [ses EXCEPT ![p].user = Some(u), ![p].at = now,
                                    ![p].pc = IF VerifyPassword(Get(ses[p].password), u.password_hash)
                                              THEN "reset" ELSE "count"]
    /\ UNCHANGED <<now, build, users, hist, authVars, ing, storeVars, cacheVars,
                   streamVars, verifyVars>>

\* the values of users.last_login_at
LastLogins == {None} \cup {Some(t) : t \in Instants}

\* UPDATE users SET <assignments> WHERE id = $1, one atomic statement
UpdateUser(id, failed, lastLogin) ==
    { IF u.id = id
      THEN [u EXCEPT !.failed_login_attempts = failed[u.failed_login_attempts],
                     !.last_login_at = lastLogin[u.last_login_at]]
      ELSE u : u \in users }

\* handlers.rs 148-156: failed_login_attempts + 1, the result is dropped
LoginCount(p, dbOk) ==
    /\ ses[p].pc = "count"
    /\ users' = IF dbOk
                THEN UpdateUser(Get(ses[p].user).id, [n \in Nat |-> n + 1],
                                [l \in LastLogins |-> l])
                ELSE users
    /\ SessionDone(p, 401, "Invalid credentials")
    /\ hist' = [hist EXCEPT !.wrong[Get(ses[p].user).id] = @ + 1]
    /\ UNCHANGED <<now, build, authVars, ing, storeVars, cacheVars,
                   streamVars, verifyVars>>

\* handlers.rs 158-177: the counter reset (result dropped), then the tokens
LoginReset(p, dbOk) ==
    /\ ses[p].pc = "reset"
    /\ users' = IF dbOk
                THEN UpdateUser(Get(ses[p].user).id, [n \in Nat |-> 0],
                                [l \in LastLogins |-> Some(now)])
                ELSE users
    /\ LET u == Get(ses[p].user) IN
         /\ issued' = issued \cup TokenPair(u, now, issued)
         /\ ses' = [ses EXCEPT ![p].pc = "done", ![p].status = 200, ![p].why = "",
                               ![p].tokens = TokenPair(u, now, issued)]
         /\ hist' = [hist EXCEPT !.wrong[u.id] = 0]
    /\ UNCHANGED <<now, build, revoked, loggedOut, cli, ing, storeVars, cacheVars,
                   streamVars, verifyVars>>

\* the response leaves; the connection can carry the next request
SessionReturn(p) ==
    /\ ses[p].pc = "done"
    /\ ses' = [ses EXCEPT ![p] = IdleSession]
    /\ UNCHANGED <<now, build, users, hist, authVars, ing, storeVars, cacheVars,
                   streamVars, verifyVars>>

UserIds == {UserId(n) : n \in 1..(Cardinality(InitialUsers) + MaxSessionRequests)}

\* (email, password) pairs the signup requests carry
SignupInputs ==
    { <<Email("alice", "mixed"), PwAlice>>, <<Email("bob", "lower"), PwAlice>>,
      <<Email("bob", "mixed"), PwWrong>>, <<Email("bob", "padded"), PwAlice>>,
      <<Email("bob", "lower"), PwShort>> }

\* (email, password) pairs the login requests carry
LoginInputs ==
    { <<Email("alice", "lower"), PwAlice>>, <<Email("alice", "mixed"), PwWrong>>,
      <<Email("alice", "padded"), PwAlice>>, <<Email("carol", "lower"), PwCarol>>,
      <<Email("carol", "lower"), PwWrong>>, <<Email("dave", "lower"), PwAlice>>,
      <<Email("bob", "lower"), PwAlice>> }

\* carol's lock is still on at the first instant and has lapsed at the second
InitSession ==
    /\ now \in {Lifetime - 1, Lifetime}
    /\ build = "release"
    /\ issued = {} /\ revoked = {} /\ loggedOut = {}
    /\ cli = [c \in Clients |-> IdleClient]
    /\ users = InitialUsers
    /\ ses = [p \in SessionProcs |-> IdleSession]
    /\ hist = [started |-> 0, wrong |-> [i \in UserIds |-> 0]]
    /\ ing = [p \in IngestProcs |-> IdleIngest]
    /\ readings = <<>> /\ analyses = <<>> /\ fhir = <<>>
    /\ cacheLatest = None /\ cacheRecent = <<>> /\ redisLock = None
    /\ chan = <<>>
    /\ subs = [s \in Streams |-> ClosedStream]
    /\ vin = None
    /\ vout = NoVerdict

SessionStep(p) ==
    \/ \E i \in SignupInputs : SignupStart(p, i[1], i[2])
    \/ \E dbOk \in BOOLEAN : SignupExists(p, dbOk)
    \/ \E dbOk \in BOOLEAN : SignupInsert(p, dbOk)
    \/ \E i \in LoginInputs : LoginStart(p, i[1], i[2])
    \/ \E dbOk \in BOOLEAN : LoginLookup(p, dbOk)
    \/ \E dbOk \in BOOLEAN : LoginCount(p, dbOk)
    \/ \E dbOk \in BOOLEAN : LoginReset(p, dbOk)
    \/ SessionReturn(p)

NextSession == \E p \in SessionProcs : SessionStep(p)

SpecSession == InitSession /\ [][NextSession]_vars

(***************************************************************************)
(* SpecStanding: alice logs in, is then deactivated or locked, and her     *)
(* tokens are presented to the protected endpoints.  No statement of the   *)
(* server writes users.is_active or users.locked_until: both are set out   *)
(* of band, by Deactivate and Lock.                                        *)
(***************************************************************************)
Deactivate(id) ==
    /\ \E u \in users : u.id = id /\ u.is_active
    /\ users' = { IF u.id = id THEN [u EXCEPT !.is_active = FALSE] ELSE u : u \in users }
    /\ UNCHANGED <<now, build, ses, hist, authVars, ing, storeVars, cacheVars,
                   streamVars, verifyVars>>

Lock(id, until) ==
    /\ \E u \in users : u.id = id /\ u.locked_until = None
    /\ users' = { IF u.id = id THEN [u EXCEPT !.locked_until = Some(until)] ELSE u : u \in users }
    /\ UNCHANGED <<now, build, ses, hist, authVars, ing, storeVars, cacheVars,
                   streamVars, verifyVars>>

StandingLogins ==
    { <<Email("alice", "lower"), PwAlice>>, <<Email("alice", "lower"), PwWrong>> }

InitStanding ==
    /\ now = 0
    /\ build = "release"
    /\ issued = {} /\ revoked = {} /\ loggedOut = {}
    /\ cli = [c \in Clients |-> IdleClient]
    /\ users = InitialUsers
    /\ ses = [p \in SessionProcs |-> IdleSession]
    /\ hist = [started |-> 0, wrong |-> [i \in UserIds |-> 0]]
    /\ ing = [p \in IngestProcs |-> IdleIngest]
    /\ readings = <<>> /\ analyses = <<>> /\ fhir = <<>>
    /\ cacheLatest = None /\ cacheRecent = <<>> /\ redisLock = None
    /\ chan = <<>>
    /\ subs = [s \in Streams |-> ClosedStream]
    /\ vin = None
    /\ vout = NoVerdict

StandingLogin(p) ==
    \/ \E i \in StandingLogins : LoginStart(p, i[1], i[2])
    \/ LoginLookup(p, TRUE)
    \/ LoginCount(p, TRUE)
    \/ Cardinality(issued) < 2 * MaxLogins /\ LoginReset(p, TRUE)
    \/ SessionReturn(p)

NextStanding ==
    \/ StandingLogin("p1")
    \/ Deactivate(UserId(1))
    \/ Lock(UserId(1), Lifetime)
    \/ ClientStep("c1")

SpecStanding == InitStanding /\ [][NextStanding]_vars

(***************************************************************************)
(* SpecToken: generate_token and validate_token (auth.rs 31-53) as         *)
(* functions.  The token under examination is issued by the service or     *)
(* made by somebody else with another key, then validated, at once or      *)
(* after the clock has moved.                                              *)
(***************************************************************************)
TokenUserIds == {UserId(1), UserId(2), UserId(3)}
TokenEmails == {"alice", "bob", "carol"}
TokenRoles == {"viewer", "clinician", "admin"}
ForeignKeys == {"attacker_key", ""}

TokenInput(userId, email, role, key) ==
    [user_id |-> userId, email |-> email, role |-> role, key |-> key]

\* the Claims that decode returns (models.rs 196-203)
ClaimsOf(tok) ==
    [sub |-> tok.sub, user_id |-> tok.user_id, role |-> tok.role,
     exp |-> tok.exp, iat |-> tok.iat, jti |-> tok.jti]

\* validate_token without the signature test (a variant C17 rules out)
DecodeUnverified(tok, nowT) ==
    IF tok.exp >= nowT - Leeway THEN Some(ClaimsOf(tok)) ELSE None

\* validate_token, auth.rs 49-53: Ok(claims) or Err
DecodeToken(tok, nowT) ==
    IF ValidateToken(tok, nowT) THEN Some(ClaimsOf(tok)) ELSE None

NoToken == [token |-> None, checked |-> FALSE, claims |-> None, at |-> 0]

InitToken ==
    /\ now \in Instants
    /\ build = "release"
    /\ issued = {} /\ revoked = {} /\ loggedOut = {}
    /\ cli = [c \in Clients |-> IdleClient]
    /\ users = {} /\ ses = <<>> /\ hist = <<>>
    /\ ing = [p \in IngestProcs |-> IdleIngest]
    /\ readings = <<>> /\ analyses = <<>> /\ fhir = <<>>
    /\ cacheLatest = None /\ cacheRecent = <<>> /\ redisLock = None
    /\ chan = <<>>
    /\ subs = [s \in Streams |-> ClosedStream]
    /\ vin \in {TokenInput(u, e, r, k) : u \in TokenUserIds, e \in TokenEmails,
                   r \in TokenRoles, k \in {JwtSecret} \cup ForeignKeys}
    /\ vout = NoToken

\* generate_token with the configured secret
TokenIssue ==
    /\ vout.token = None
    /\ vin.key = JwtSecret
    /\ vout' = [vout EXCEPT !.token =
                  Some(GenerateToken(vin.user_id, vin.email, vin.role, now, Jti(1)))]
    /\ UNCHANGED <<now, build, sessVars, authVars, ing, storeVars, cacheVars,
                   streamVars, vin>>

\* a token with the same claims made outside the service with another key
TokenForge ==
    /\ vout.token = None
    /\ vin.key # JwtSecret
    /\ vout' = [vout EXCEPT !.token =
                  Some([GenerateToken(vin.user_id, vin.email, vin.role, now, Jti(1))
                          EXCEPT !.key = vin.key])]
    /\ UNCHANGED <<now, build, sessVars, authVars, ing, storeVars, cacheVars,
                   streamVars, vin>>

TokenValidate ==
    /\ vout.token # None
    /\ ~vout.checked
    /\ vout' = [vout EXCEPT !.checked = TRUE, !.at = now,
                            !.claims = DecodeToken(Get(vout.token), now)]
    /\ UNCHANGED <<now, build, sessVars, authVars, ing, storeVars, cacheVars,
                   streamVars, vin>>

NextToken == TokenIssue \/ TokenForge \/ TokenValidate \/ Tick

SpecToken == InitToken /\ [][NextToken]_vars

(***************************************************************************)
(* SpecRevoke: logout and the revocation test of the read endpoints on     *)
(* the two tokens of one login, while the clock moves past their expiry.   *)
(***************************************************************************)
InitRevoke ==
    /\ now = 0
    /\ build = "release"
    /\ issued = {TokenA, TokenB}
    /\ revoked = {} /\ loggedOut = {}
    /\ cli = [c \in Clients |-> IdleClient]
    /\ users = {} /\ ses = <<>> /\ hist = <<>>
    /\ ing = [p \in IngestProcs |-> IdleIngest]
    /\ readings = <<>> /\ analyses = <<>> /\ fhir = <<>>
    /\ cacheLatest = None /\ cacheRecent = <<>> /\ redisLock = None
    /\ chan = <<>>
    /\ subs = [s \in Streams |-> ClosedStream]
    /\ vin = None
    /\ vout = NoVerdict

NextRevoke == Tick \/ \E c \in Clients : ClientStep(c)

SpecRevoke == InitRevoke /\ [][NextRevoke]_vars

(***************************************************************************)
(* SpecStream: the broadcaster with two open streams.  s1 reads when it    *)
(* likes and can fall behind by more than the channel keeps; s2 has read   *)
(* every event before the next one is sent.                                *)
(***************************************************************************)
OpenStream ==
    [state |-> "open", bearerOk |-> TRUE, start |-> 0, got |-> 0, lagged |-> FALSE,
     out |-> <<Heartbeat>>]

InitStream ==
    /\ now = 0
    /\ build = "release"
    /\ issued = {TokenA, TokenB}
    /\ revoked = {} /\ loggedOut = {}
    /\ cli = [c \in Clients |-> IdleClient]
    /\ users = {} /\ ses = <<>> /\ hist = <<>>
    /\ ing = [p \in IngestProcs |-> IdleIngest]
    /\ readings = <<>> /\ analyses = <<>> /\ fhir = <<>>
    /\ cacheLatest = None /\ cacheRecent = <<>> /\ redisLock = None
    /\ chan = <<>>
    /\ subs = [s \in Streams |-> OpenStream]
    /\ vin = None
    /\ vout = NoVerdict

\* broadcast_vitals, sse.rs 85-88: send never waits for a receiver
BroadcastEvent ==
    /\ Len(chan) < MaxEvents
    /\ Publish("vitals", Len(chan) + 1, None)
    /\ UNCHANGED <<now, build, sessVars, authVars, ing, storeVars, cacheVars, subs,
                   verifyVars>>

\* s2 is closed or has read everything that was sent
PromptReader == subs["s2"].state = "open" => Cursor("s2") = Len(chan)

NextStream ==
    \/ PromptReader /\ BroadcastEvent
    \/ \E s \in Streams : StreamRecv(s)
    \/ \E s \in Streams : StreamDisconnect(s)

SpecStream == InitStream /\ [][NextStream]_vars

(***************************************************************************)
(* SpecFeed: stream connections that come and go while the broadcaster     *)
(* sends a few events and the heartbeat timers fire.  A client that goes   *)
(* away is noticed by the server when it next writes to the connection.    *)
(***************************************************************************)
\* heartbeats in the response body of s, the first one included
Heartbeats(s) == Cardinality({i \in DOMAIN subs[s].out : subs[s].out[i] = Heartbeat})

\* the heartbeat branch of stream_vitals that sends the newest event again (a variant C21 rules out)
StreamHeartbeatRepeating(s) ==
    /\ subs[s].state = "open"
    /\ Heartbeats(s) <= MaxHeartbeats
    /\ subs' = [subs EXCEPT ![s].out =
                  Append(@, IF subs[s].got > 0 THEN Cursor(s) ELSE Heartbeat)]
    /\ UNCHANGED <<now, build, sessVars, authVars, ing, storeVars, cacheVars, chan, verifyVars>>

\* sse.rs 43-51: heartbeat_interval.tick() -> a heartbeat item
StreamHeartbeat(s) ==
    /\ subs[s].state = "open"
    /\ Heartbeats(s) <= MaxHeartbeats
    /\ subs' = [subs EXCEPT ![s].out = Append(@, Heartbeat)]
    /\ UNCHANGED <<now, build, sessVars, authVars, ing, storeVars, cacheVars, chan, verifyVars>>

\* the client closes the connection; the server has not written since
ClientGone(s) ==
    /\ subs[s].state = "open"
    /\ subs' = [subs EXCEPT ![s].state = "gone"]
    /\ UNCHANGED <<now, build, sessVars, authVars, ing, storeVars, cacheVars, chan, verifyVars>>

\* the response body that is never dropped after a failed write (a variant C22 rules out)
StreamDropNever(s) ==
    /\ subs[s].state = "gone"
    /\ UNCHANGED vars

\* the next write (an event, or the heartbeat 30 s later at most) fails:
\* the response body is dropped and with it the receiver
StreamDrop(s) ==
    /\ subs[s].state = "gone"
    /\ subs' = [subs EXCEPT ![s] = ClosedStream]
    /\ UNCHANGED <<now, build, sessVars, authVars, ing, storeVars, cacheVars, chan, verifyVars>>

\* broadcaster.receiver_count(): every response body not yet dropped holds
\* the receiver of its subscribe() call
ReceiverCount == Cardinality({s \in Streams : subs[s].state # "closed"})

\* connections whose client is still there
LiveConnections == Cardinality({s \in Streams : subs[s].state = "open"})

InitFeed ==
    /\ now = 0
    /\ build = "release"
    /\ issued = {TokenA, TokenB}
    /\ revoked = {} /\ loggedOut = {}
    /\ cli = [c \in Clients |-> IdleClient]
    /\ users = {} /\ ses = <<>> /\ hist = <<>>
    /\ ing = [p \in IngestProcs |-> IdleIngest]
    /\ readings = <<>> /\ analyses = <<>> /\ fhir = <<>>
    /\ cacheLatest = None /\ cacheRecent = <<>> /\ redisLock = None
    /\ chan = <<>>
    /\ subs = [s \in Streams |-> ClosedStream]
    /\ vin = None
    /\ vout = NoVerdict

FeedStep(s) ==
    \/ StreamConnect(s, Bearer(TokenA))
    \/ StreamRecv(s)
    \/ StreamHeartbeat(s)
    \/ ClientGone(s)
    \/ StreamDrop(s)

NextFeed ==
    \/ Len(chan) < MaxFeedEvents /\ BroadcastEvent
    \/ \E s \in Streams : FeedStep(s)

SpecFeed == InitFeed /\ [][NextFeed]_vars

\* select! polls the receiver whenever it holds an event, and a write to a
\* closed connection fails within one heartbeat period
FairFeed ==
    \A s \in Streams : WF_vars(StreamRecv(s)) /\ WF_vars(StreamDrop(s))

SpecFeedLive == SpecFeed /\ FairFeed

(***************************************************************************)
(* SpecSubs: the subscriptions of a new broadcaster.  Clients connect      *)
(* before the first event; s1 reads when it likes and can be ended for     *)
(* lagging, s2 keeps up; either client can go away at any moment, and      *)
(* the server notices before the next event is sent.                       *)
(***************************************************************************)
\* s1 does not read before it is a full channel capacity behind
SlowReader(s) == s = "s1" => Len(chan) - Cursor(s) >= ChannelCapacity

SubsStep(s) ==
    \/ Len(chan) = 0 /\ StreamConnect(s, Bearer(TokenA))
    \/ SlowReader(s) /\ StreamRecv(s)
    \/ ClientGone(s)
    \/ StreamDrop(s)

\* the server has noticed every client that went away
NoneGone == \A s \in Streams : subs[s].state # "gone"

NextSubs ==
    \/ PromptReader /\ NoneGone /\ BroadcastEvent
    \/ \E s \in Streams : SubsStep(s)

SpecSubs == InitFeed /\ [][NextSubs]_vars

\* a write to a closed connection fails within one heartbeat period
FairDrop == \A s \in Streams : WF_vars(StreamDrop(s))

SpecSubsLive == SpecSubs /\ FairDrop

(***************************************************************************)
(* SpecCache: the cache operations of redis_cache.rs as functions on the   *)
(* two keys.  The cache starts as a number of earlier writes left it;      *)
(* then come a few more writes, any command of which can fail, and reads.  *)
(* Every operation runs under the write lock of AppState.redis.            *)
(***************************************************************************)
\* the snapshot of the k-th write
CacheSnapshot(k) ==
    [rid |-> k, heartRate |-> 75, spo2 |-> 98, temperature |-> 365,
     timestamp |-> k, quality_score |-> Some(95), ml_alert |-> None]

\* serde_json::to_string / from_str of a LatestVitals
SerializeVitals(v) == <<"json", v>>
DeserializeVitals(j) == IF j[1] = "json" THEN Some(j[2]) ELSE None

\* LRANGE key start stop: negative indexes count from the end of the list
LRange(list, start, stop) ==
    LET n == Len(list)
        from == IF start < 0 THEN Max(n + start, 0) ELSE start
        to == IF stop < 0 THEN n + stop ELSE Min(stop, n - 1)
    IN IF from > to THEN <<>> ELSE SubSeq(list, from + 1, to + 1)

\* get_latest_vitals, redis_cache.rs 40-51
GetLatestVitals(latest, ok) ==
    IF ~ok THEN [ok |-> FALSE, value |-> None]
    ELSE IF latest = None THEN [ok |-> TRUE, value |-> None]
    ELSE LET v == DeserializeVitals(SerializeVitals(Get(latest))) IN
         IF v = None THEN [ok |-> FALSE, value |-> None]
         ELSE [ok |-> TRUE, value |-> v]

\* get_recent_readings, redis_cache.rs 54-65: LRANGE 0 count-1
GetRecentReadings(list, count, ok) ==
    IF ~ok THEN [ok |-> FALSE, value |-> <<>>]
    ELSE [ok |-> TRUE, value |-> LRange(list, 0, count - 1)]

\* the newest Min(k, MaxRecentReadings) snapshots of k writes, newest first
NewestFirst(k) ==
    [i \in 1..Min(k, MaxRecentReadings) |-> CacheSnapshot(k - i + 1)]

CacheFills == {0, 1, MaxRecentReadings - 2, MaxRecentReadings - 1, MaxRecentReadings}
RecentCounts == {-1, 0, 1, 5, MaxRecentReadings, MaxRecentReadings + 1}

NoQuery == [op |-> "none", n |-> 0, ok |-> TRUE, value |-> None]

\* vin: the writes made so far, how many of them in this run, and whether
\* each returned Ok
InitCache ==
    /\ now = 0
    /\ build = "release"
    /\ issued = {} /\ revoked = {} /\ loggedOut = {}
    /\ cli = [c \in Clients |-> IdleClient]
    /\ users = {} /\ ses = <<>> /\ hist = <<>>
    /\ ing = [p \in IngestProcs |-> IdleIngest]
    /\ readings = <<>> /\ analyses = <<>> /\ fhir = <<>>
    /\ \E k \in CacheFills :
          /\ cacheLatest = IF k = 0 THEN None ELSE Some(CacheSnapshot(k))
          /\ cacheRecent = NewestFirst(k)
          /\ vin = [k |-> k, run |-> 0, clean |-> TRUE]
    /\ redisLock = None
    /\ chan = <<>>
    /\ subs = [s \in Streams |-> ClosedStream]
    /\ vout = NoQuery

CacheSet(fail) ==
    /\ vin.run < MaxCacheWrites
    /\ redisLock = None
    /\ SetLatestVitals(CacheSnapshot(vin.k + 1), fail)
    /\ vin' = [k |-> vin.k + 1, run |-> vin.run + 1, clean |-> vin.clean /\ fail = 0]
    /\ vout' = NoQuery
    /\ UNCHANGED <<now, build, sessVars, authVars, ing, storeVars, redisLock, streamVars>>

CacheGetLatest(ok) ==
    /\ redisLock = None
    /\ vout' = [op |-> "latest", n |-> 0] @@ GetLatestVitals(cacheLatest, ok)
    /\ UNCHANGED <<now, build, sessVars, authVars, ing, storeVars, cacheVars, streamVars, vin>>

CacheGetRecent(n, ok) ==
    /\ redisLock = None
    /\ vout' = [op |-> "recent", n |-> n] @@ GetRecentReadings(cacheRecent, n, ok)
    /\ UNCHANGED <<now, build, sessVars, authVars, ing, storeVars, cacheVars, streamVars, vin>>

NextCache ==
    \/ \E fail \in 0..3 : CacheSet(fail)
    \/ \E ok \in BOOLEAN : CacheGetLatest(ok)
    \/ \E n \in RecentCounts, ok \in BOOLEAN : CacheGetRecent(n, ok)

SpecCache == InitCache /\ [][NextCache]_vars

(***************************************************************************)
(* SpecLatest: GET /api/vitals/latest against a store and a cache in the   *)
(* states ingestion can leave them in.  body is the JSON document of the   *)
(* response; cacheOk and dbOk are history fields: whether the cache read   *)
(* and the store query of the request succeeded.                           *)
(***************************************************************************)
\* handlers.rs 379-386
ZeroSnapshot ==
    [rid |-> 0, heartRate |-> 0, spo2 |-> 0, temperature |-> 0,
     timestamp |-> 0, quality_score |-> None, ml_alert |-> None]

\* handlers.rs 368-375
RowSnapshot(r) ==
    [rid |-> r.id, heartRate |-> UnwrapOr(r.heart_rate, 0),
     spo2 |-> UnwrapOr(r.spo2, 0), temperature |-> UnwrapOr(r.temperature, 0),
     timestamp |-> r.reading_timestamp, quality_score |-> r.quality_score,
     ml_alert |-> None]

\* the oldest row instead of the newest (a variant C24 rules out)
LatestRowsAscending(rows) ==
    {i \in DOMAIN rows :
        \A j \in DOMAIN rows : rows[j].reading_timestamp >= rows[i].reading_timestamp}

\* SELECT * FROM sensor_readings ORDER BY reading_timestamp DESC LIMIT 1:
\* the rows the statement can return (any one of those that tie)
LatestRows(rows) ==
    {i \in DOMAIN rows :
        \A j \in DOMAIN rows : rows[j].reading_timestamp <= rows[i].reading_timestamp}

\* handlers.rs 353-388, after the bearer gate
ClientLatest(c, cacheOk, dbOk) ==
    /\ cli[c].pc = "serve"
    /\ cli[c].kind = "latest"
    /\ redisLock = None
    /\ LET cached == GetLatestVitals(cacheLatest, cacheOk)
           seen == [ClientDone(c, 200, "", "vitals") EXCEPT
                      !.cacheOk = cacheOk, !.dbOk = dbOk]
       IN IF cached.ok /\ IsSome(cached.value)
          THEN cli' = [cli EXCEPT ![c] = [seen EXCEPT !.body = cached.value]]
          ELSE IF dbOk /\ readings # <<>>
          THEN \E i \in LatestRows(readings) :
                  cli' = [cli EXCEPT ![c] =
                            [seen EXCEPT !.body = Some(RowSnapshot(readings[i]))]]
          ELSE cli' = [cli EXCEPT ![c] = [seen EXCEPT !.body = Some(ZeroSnapshot)]]
    /\ UNCHANGED <<now, build, sessVars, issued, revoked, loggedOut, ing, storeVars,
                   cacheVars, streamVars, verifyVars>>

\* reading_timestamp is the device's clock: rows need not be in time order
StoredTimestamps == {5, 9}

StoredReadings ==
    {<<>>} \cup
    { <<ReadingRow(1, [id |-> "uuid-1"], NormalVitals(t))>> : t \in StoredTimestamps } \cup
    { <<ReadingRow(1, [id |-> "uuid-1"], NormalVitals(t)),
        ReadingRow(2, [id |-> "uuid-1"], CriticalSpo2Vitals(u))>> :
        t \in StoredTimestamps, u \in StoredTimestamps }

InitLatest ==
    /\ now = 0
    /\ build = "release"
    /\ issued = {TokenA} /\ revoked = {} /\ loggedOut = {}
    /\ cli = [c \in Clients |-> IdleClient]
    /\ users = {} /\ ses = <<>> /\ hist = <<>>
    /\ ing = [p \in IngestProcs |-> IdleIngest]
    /\ readings \in StoredReadings
    /\ analyses = <<>> /\ fhir = <<>>
    /\ cacheLatest \in {None, Some(CacheSnapshot(3))}
    /\ cacheRecent = <<>> /\ redisLock = None
    /\ chan = <<>>
    /\ subs = [s \in Streams |-> ClosedStream]
    /\ vin = None
    /\ vout = NoVerdict

LatestStep(c) ==
    \/ \E hdr \in ClientHeaders : ClientStart(c, "latest", hdr)
    \/ \E dbOk \in BOOLEAN : ClientRevCheck(c, dbOk)
    \/ \E cacheOk \in BOOLEAN, dbOk \in BOOLEAN : ClientLatest(c, cacheOk, dbOk)
    \/ ClientReturn(c)

NextLatest == \E c \in Clients : LatestStep(c)

SpecLatest == InitLatest /\ [][NextLatest]_vars

(***************************************************************************)
(* SpecExport: GET /api/fhir/export.  The query string is extracted as     *)
(* web::Query<serde_json::Value>: serde_urlencoded hands every value to    *)
(* the visitor as a string, so the JSON value of ?limit=5 is the string    *)
(* "5".  A query value is modelled by its text: the number it spells and   *)
(* whether it is a plain decimal.  query is a history field.               *)
(***************************************************************************)
DefaultExportLimit == 100
MaxExportLimit == 1000

QueryText(n, form) == [val |-> n, form |-> form]

JsonString(text) == [type |-> "string", text |-> text]
JsonNumber(n) == [type |-> "number", n |-> n]

\* web::Query<serde_json::Value>: the JSON value of one query parameter
QueryValue(text) == JsonString(text)

\* serde_json::Value::as_u64
AsU64(v) == IF v.type = "number" /\ v.n >= 0 THEN Some(v.n) ELSE None

\* handlers.rs 415-418; q is the limit parameter's text, None when absent
ExportLimit(q) ==
    LET v == IF IsSome(q) THEN AsU64(QueryValue(Get(q))) ELSE None
    IN Min(UnwrapOr(v, DefaultExportLimit), MaxExportLimit)

\* ORDER BY reading_timestamp DESC LIMIT n, as a sequence of row numbers:
\* the k-th is the row with k - 1 rows before it (rows that tie are taken
\* in insertion order)
NewestIds(rows, n) ==
    LET before == [i \in DOMAIN rows |->
                     Cardinality({j \in DOMAIN rows :
                        \/ rows[j].reading_timestamp > rows[i].reading_timestamp
                        \/ /\ rows[j].reading_timestamp = rows[i].reading_timestamp
                           /\ j < i})] @@ <<>>
    IN [k \in 1..Min(n, Len(rows)) |-> CHOOSE i \in DOMAIN rows : before[i] = k - 1]

\* handlers.rs 434-441: the entries of each reading's bundle, concatenated
\* in the order of ids; each is paired with the number of the row it came
\* from (a history field).  The concatenation is computed by halves.
RECURSIVE ExportEntries(_, _)
ExportEntries(rows, ids) ==
    IF ids = <<>> THEN <<>>
    ELSE IF Len(ids) = 1
    THEN LET entries == CreateObservationBundle(rows[ids[1]], None).entry
         IN [k \in 1..Len(entries) |-> <<ids[1], entries[k]>>]
    ELSE LET half == Len(ids) \div 2
         IN ExportEntries(rows, SubSeq(ids, 1, half))
            \o ExportEntries(rows, SubSeq(ids, half + 1, Len(ids)))

\* handlers.rs 444-451
ExportBundle(entries) ==
    [resourceType |-> "Bundle", type |-> "collection",
     total |-> Len(entries), entry |-> entries]

\* handlers.rs 415-466, after the bearer gate
ClientExport(c, q, dbOk) ==
    /\ cli[c].pc = "serve"
    /\ cli[c].kind = "export"
    /\ LET rs == NewestIds(readings, ExportLimit(q)) IN
       cli' = [cli EXCEPT ![c] =
                IF dbOk
                THEN [ClientDone(c, 200, "", "bundle") EXCEPT
                        !.body = Some(ExportBundle(ExportEntries(readings, rs))),
                        !.query = q, !.dbOk = dbOk]
                ELSE [ClientDone(c, 500, "Failed to fetch readings", "none") EXCEPT
                        !.query = q, !.dbOk = dbOk]]
    /\ UNCHANGED <<now, build, sessVars, issued, revoked, loggedOut, ing, storeVars,
                   cacheVars, streamVars, verifyVars>>

ExportQueries ==
    {None} \cup {Some(QueryText(n, "dec")) : n \in {0, 1, 5, MaxExportLimit, MaxExportLimit + 1}}
           \cup {Some(QueryText(0, "junk"))}

\* store sizes around the default limit
StoredCounts == {0, 2, 6, DefaultExportLimit + 1}

InitExport ==
    /\ now = 0
    /\ build = "release"
    /\ issued = {TokenA} /\ revoked = {} /\ loggedOut = {}
    /\ cli = [c \in Clients |-> IdleClient]
    /\ users = {} /\ ses = <<>> /\ hist = <<>>
    /\ ing = [p \in IngestProcs |-> IdleIngest]
    /\ \E n \in StoredCounts :
          readings = [i \in 1..n |-> ReadingRow(i, [id |-> "uuid-1"], NormalVitals(i))]
    /\ analyses = <<>> /\ fhir = <<>>
    /\ cacheLatest = None /\ cacheRecent = <<>> /\ redisLock = None
    /\ chan = <<>>
    /\ subs = [s \in Streams |-> ClosedStream]
    /\ vin = None
    /\ vout = NoVerdict

ExportStep(c) ==
    \/ \E hdr \in ClientHeaders : ClientStart(c, "export", hdr)
    \/ \E dbOk \in BOOLEAN : ClientRevCheck(c, dbOk)
    \/ \E q \in ExportQueries, dbOk \in BOOLEAN : ClientExport(c, q, dbOk)
    \/ ClientReturn(c)

NextExport == \E c \in Clients : ExportStep(c)

SpecExport == InitExport /\ [][NextExport]_vars

(***************************************************************************)
(* SpecSweep: logouts while the clock runs past the tokens' expiry.  The   *)
(* server has no statement that deletes from revoked_tokens and starts no  *)
(* background task, so revoke_token is the only writer of the table.       *)
(* Time passes and every request in progress is driven to its end.         *)
(***************************************************************************)
SweepStep(c) ==
    \/ \E hdr \in ClientHeaders : ClientStart(c, "logout", hdr)
    \/ \E dbOk \in BOOLEAN : ClientRevoke(c, dbOk)
    \/ ClientReturn(c)

NextSweep == Tick \/ \E c \in Clients : SweepStep(c)

SpecSweep == InitRevoke /\ [][NextSweep]_vars

FairSweep == WF_vars(Tick) /\ \A c \in Clients : WF_vars(SweepStep(c))

SpecSweepLive == SpecSweep /\ FairSweep

(***************************************************************************)
(* SpecBundle: create_observation_bundle applied to one reading.  The      *)
(* vitals are absent or at the ends and inside of the ranges ingestion     *)
(* accepts.                                                                *)
(***************************************************************************)
BundleReadings ==
    { [id |-> 1, device_id |-> d, heart_rate |-> hr, spo2 |-> sp,
       temperature |-> t, reading_timestamp |-> 7, quality_score |-> None] :
        d \in {"uuid-1", "uuid-2"},
        hr \in {None, Some(HrMin), Some(72), Some(HrMax)},
        sp \in {None, Some(Spo2Min), Some(98), Some(Spo2Max)},
        t \in {None, Some(TempMin), Some(368), Some(TempMax)} }

PatientReferences == {None, Some("Patient/123")}

NoBundle == [resourceType |-> "none", type |-> "none", entry |-> <<>>]

InitBundle ==
    /\ now = 0
    /\ build = "release"
    /\ issued = {} /\ revoked = {} /\ loggedOut = {}
    /\ cli = <<>>
    /\ users = {} /\ ses = <<>> /\ hist = <<>>
    /\ ing = [p \in IngestProcs |-> IdleIngest]
    /\ readings = <<>> /\ analyses = <<>> /\ fhir = <<>>
    /\ cacheLatest = None /\ cacheRecent = <<>> /\ redisLock = None
    /\ chan = <<>>
    /\ subs = [s \in Streams |-> ClosedStream]
    /\ \E r \in BundleReadings, pt \in PatientReferences :
          vin = [reading |-> r, patient |-> pt]
    /\ vout = NoBundle

BundleCreate ==
    /\ vout = NoBundle
    /\ vout' = CreateObservationBundle(vin.reading, vin.patient)
    /\ UNCHANGED <<now, build, sessVars, authVars, ing, storeVars, cacheVars, streamVars, vin>>

NextBundle == BundleCreate

SpecBundle == InitBundle /\ [][NextBundle]_vars

(***************************************************************************)
(* SpecOrder: one worker, requests with any combination of defects (body   *)
(* out of range, a header missing or unparsable, a timestamp outside the   *)
(* window or at the far end of i64, a signature under another key, a       *)
(* device that is unknown or deactivated), in a debug and in a release     *)
(* build, up to the device lookup.                                         *)
(***************************************************************************)
OrderTimestamps(nowT) ==
    {None, Some(TsHeader(nowT, "junk")), Some(TsHeader(nowT, "dec")),
     Some(TsHeader(nowT - ReplayWindow - 1, "dec")),
     Some(TsHeader(nowT + I64Min, "dec"))}

OrderRequests(nowT) ==
    { DeviceRequest(RawBody(f, "compact"), dev, ts,
        IF sg = "absent" \/ ts = None THEN None
        ELSE Some(ClientSignature(IF sg = "own" THEN DeviceSecret ELSE "other_secret",
                                  Get(ts), RawBody(f, "compact")))) :
        f \in {NormalVitals(nowT), OutOfRangeVitals(nowT)},
        dev \in {None, Some("TEST-DEVICE-001"), Some("TEST-DEVICE-002"),
                 Some("TEST-DEVICE-003")},
        ts \in OrderTimestamps(nowT),
        sg \in {"own", "otherkey", "absent"} }

InitOrder ==
    /\ now \in {0, ReplayWindow}
    /\ build \in {"debug", "release"}
    /\ issued = {} /\ revoked = {} /\ loggedOut = {}
    /\ cli = <<>>
    /\ users = {} /\ ses = <<>> /\ hist = <<>>
    /\ ing = [p \in IngestProcs |-> IdleIngest]
    /\ readings = <<>> /\ analyses = <<>> /\ fhir = <<>>
    /\ cacheLatest = None /\ cacheRecent = <<>> /\ redisLock = None
    /\ chan = <<>>
    /\ subs = [s \in Streams |-> ClosedStream]
    /\ vin = None
    /\ vout = NoVerdict

NextOrder ==
    \/ \E req \in OrderRequests(now) : IngestStart("w1", req)
    \/ \E dbOk \in BOOLEAN : DeviceLookup("w1", dbOk)
    \/ IngestReturn("w1")

SpecOrder == InitOrder /\ [][NextOrder]_vars

(***************************************************************************)
(* SpecRace: two workers, one request each, every call succeeding, so      *)
(* that the steps of two ingestions interleave in every order.             *)
(***************************************************************************)
AcceptedInputs(nowT) ==
    { Signed(DeviceSecret, NormalVitals(nowT), "compact", "TEST-DEVICE-001", nowT),
      Signed(DeviceSecret, BradyHypoxVitals(nowT), "compact", "TEST-DEVICE-001", nowT) }

OneShot(p, inputs, dbs, fails) ==
    /\ ing[p].pc # "done"
    /\ IngestStep(p, inputs, dbs, fails, Cardinality(IngestProcs))

NextRace ==
    \/ \E p \in IngestProcs : OneShot(p, AcceptedInputs(now), {TRUE}, {0})
    \/ \E s \in Streams : StreamStep(s, {None})

SpecRace == Init /\ [][NextRace]_vars

(***************************************************************************)
(* SpecRebuild: one worker ingests, every call succeeding, while one       *)
(* client reads /api/vitals/latest; the read finds the cache (a hit) or    *)
(* fails to read it and falls back to the store (a miss).                  *)
(***************************************************************************)
NextRebuild ==
    \/ OneShot("w1", AcceptedInputs(now), {TRUE}, {0})
    \/ LatestStep("c1")

InitRebuild == InitLatest /\ readings = <<>> /\ cacheLatest = None

SpecRebuild == InitRebuild /\ [][NextRebuild]_vars

(***************************************************************************)
(* Helpers of the properties.                                              *)
(***************************************************************************)
EventsOf(rid, kind) == {i \in DOMAIN chan : chan[i].rid = rid /\ chan[i].type = kind}
AnalysesOf(rid) == {i \in DOMAIN analyses : analyses[i].sensor_reading_id = rid}
FhirOf(rid) == {i \in DOMAIN fhir : fhir[i].sensor_reading_id = rid}
CachedRids == {cacheRecent[i].rid : i \in DOMAIN cacheRecent}
Accepted(p) == ing[p].pc = "done" /\ ing[p].status = 200
Lagging(s) == Len(chan) - Cursor(s) > BufferSlots

\* a bearer-protected read that has produced its response
ReadDone(c) == cli[c].pc = "done" /\ cli[c].kind \in {"latest", "export"}

\* C1: after a logout bearing token t has returned success, every later
\* request bearing t to a bearer-protected endpoint is answered 401 and
\* returns no vitals or FHIR data.
\* (Stated as the claim states it; logout ignores a failed revocation, the
\* lookup fails open, and the revocation row lapses before the leeway does.)
C1_LogoutBlocksReuse ==
    \A c \in Clients :
        (ReadDone(c) /\ cli[c].afterLogout)
            => (cli[c].status = 401 /\ cli[c].data = "none")

\* C2: a bearer-protected request whose token is revoked, or whose
\* revocation lookup returned an error, is rejected with 401 and is served
\* no data.
\* (Stated as the claim states it; the handlers take a failed lookup for
\* "not revoked".)
C2_RevokedFailClosed ==
    \A c \in Clients :
        (ReadDone(c) /\ (cli[c].lookup = "error" \/ cli[c].wasRevoked))
            => (cli[c].status = 401 /\ cli[c].data = "none")

\* C3: the live stream has a subscription, and delivers events, only for a
\* client that presented a valid, non-revoked bearer token.
\* (Stated as the claim states it; stream_vitals never reads the header.)
C3_StreamRequiresBearer ==
    \A s \in Streams : subs[s].state = "open" => subs[s].bearerOk

\* the request examined by SpecVerify got as far as the signature comparison
ReachedSignatureCheck == vout.why \in {"pass", "Invalid signature"}

\* C4: the signature check accepts a request if and only if X-Signature is
\* base64(HMAC-SHA256(secret, "{X-Timestamp}." + body)) computed over the
\* exact bytes received, not over a re-serialized form of the parsed body.
\* (Stated as the claim states it; the handler signs the re-serialized body.)
C4_SignatureOverReceivedBytes ==
    (IsSome(vin) /\ ReachedSignatureCheck) =>
        LET req == Get(vin) IN
        (vout = Pass) <=>
            (Get(req.sig) = ClientSignature(DeviceSecret, Get(req.ts), req.raw))

\* the request examined by SpecVerify is valid in everything but, possibly,
\* the age of its timestamp: well-formed body within range, all headers
\* present, and the signature the server computes for it
OtherwiseValid(req) ==
    /\ req.raw.form # "malformed"
    /\ ValidateRanges(ParseBody(req.raw))
    /\ IsSome(req.dev) /\ IsSome(req.ts) /\ IsSome(req.sig)
    /\ IsSome(ParseTimestamp(Get(req.ts)))
    /\ Get(req.sig) = ExpectedSignature(DeviceSecret,
                         Get(ParseTimestamp(Get(req.ts))), ParseBody(req.raw))

\* C5: with server time T and header timestamp ts, an otherwise valid ingest
\* request passes the replay check exactly when |T - ts| <= 60, and at
\* |T - ts| = 61 (both signs) it is rejected with 401.
\* (Stated as the claim states it; the subtraction and abs() are i64.)
C5_ReplayWindowBoundary ==
    (IsSome(vin) /\ OtherwiseValid(Get(vin))) =>
        LET ts == Get(ParseTimestamp(Get(Get(vin).ts))) IN
        /\ (vout = Pass) <=> (Abs(now - ts) <= ReplayWindow)
        /\ (Abs(now - ts) = ReplayWindow + 1)
              => vout = Verdict(401, "Timestamp out of range")

\* SpecAnalyze has applied the analyzer to its input
Analyzed == vout # NoVerdict /\ Get(vin).op = "analyze"

\* a value the rules must skip: absent, or the zero sentinel
Missing(o) == ~IsSome(o) \/ Get(o) = 0

\* C11: for every reading with heart rate in [critical_hr_low,
\* critical_hr_high], SpO2 in [critical_spo2_low, 100] and temperature in
\* [35.5, 38.0], analyze_reading returns classification normal and
\* generate_alert returns no alert (configuration of the tests).
\* (Stated as the claim states it; the z-score rules fire inside the range.)
C11_NormalRangeIsNormal ==
    (Analyzed /\ Get(vin).cfg = TestMlConfig
              /\ Get(Get(vin).reading) \in NormalRangeReadings) =>
        /\ vout.analysis.classification = "normal"
        /\ vout.alert = None

\* C12: generate_alert returns an alert if and only if enable_alerts is
\* true, anomaly_detected is true and anomaly_score >= anomaly_threshold,
\* whatever the value of alert_level.
\* (Stated as the claim states it; alert_level "none" returns no alert.)
C12_AlertIffThreshold ==
    vout # NoVerdict =>
        (IsSome(vout.alert) <=>
            /\ Get(vin).cfg.enable_alerts
            /\ vout.analysis.anomaly_detected
            /\ vout.analysis.anomaly_score >= Get(vin).cfg.anomaly_threshold)

\* C13: for a reading whose heart rate (SpO2) is absent or zero no
\* heart-rate (SpO2) rule, the z-score rule included, adds to the raw score
\* or records a hit, and a reading that only lacks values has raw score 0.
\* (Stated as the claim states it; the z-score rules take absent as 0.)
C13_MissingValuesSkipped ==
    Analyzed =>
        LET r == Get(Get(vin).reading)
            a == vout.analysis
        IN /\ Missing(r.heart_rate) =>
                a.anomalies \cap {"bradycardia", "tachycardia", "hr_zscore"} = {}
           /\ Missing(r.spo2) =>
                a.anomalies \cap {"hypoxemia", "spo2_zscore"} = {}
           /\ (/\ Missing(r.heart_rate) \/ r.heart_rate = Some(72)
               /\ Missing(r.spo2) \/ r.spo2 = Some(98)
               /\ Missing(r.temperature) \/ r.temperature = Some(368)
               /\ Get(vin).cfg = TestMlConfig)
                => a.raw = 0

(***************************************************************************)
(* C6: a rejected device-ingest request (400 or 401) leaves the store,     *)
(* the cache and the broadcaster unchanged in every step it takes, and     *)
(* every sensor_readings row belongs to a device that is active.           *)
(***************************************************************************)
C6_RejectedIngestChangesNothing ==
    /\ [](\A i \in DOMAIN readings :
            \E d \in Devices : d.is_active /\ d.id = readings[i].device_id)
    /\ [][\A p \in IngestProcs :
            /\ (ing[p].pc = "idle" /\ ing'[p].pc # "idle")
                 => UNCHANGED <<storeVars, cacheVars, streamVars>>
            /\ (ing[p].pc # "done" /\ ing'[p].pc = "done"
                    /\ ing'[p].status \in {400, 401})
                 => /\ ing[p].pc \in {"idle", "lookup"}
                    /\ ing'[p].rid = 0
                    /\ Len(readings') = ing'[p].before
                    /\ UNCHANGED <<storeVars, cacheVars, streamVars>>]_vars

\* a validly signed request for the deactivated device was answered 401
\* while a reading of an earlier request is stored
C6_Witness ==
    \E p \in IngestProcs :
        /\ ing[p].pc = "done" /\ ing[p].status = 401
        /\ ing[p].why = "Unknown device"
        /\ Get(Get(ing[p].req).dev) = "TEST-DEVICE-002"
        /\ Len(readings) = 1

(***************************************************************************)
(* C7: an accepted request none of whose calls failed has inserted         *)
(* exactly one reading row, one analysis row and one FHIR row for it, has  *)
(* set vitals:latest to its snapshot, has published exactly one Vitals     *)
(* event (which every subscriber that was connected and is not lagging     *)
(* has got once or still has pending) and an Alert event only if the       *)
(* analyzer emitted one, and answers 200 with the id of the inserted row.  *)
(***************************************************************************)
C7_AcceptedIngestEffects ==
    \A p \in IngestProcs :
        (Accepted(p) /\ ing[p].clean) =>
            LET rid == ing[p].rid IN
            /\ Len(readings) = ing[p].before + 1
            /\ rid = Len(readings)
            /\ readings[rid] = ReadingRow(rid, Get(ing[p].device), Body(p))
            /\ Cardinality(AnalysesOf(rid)) = 1
            /\ \A i \in AnalysesOf(rid) : analyses[i] = AnalysisRow(rid, MlResult(p))
            /\ Cardinality(FhirOf(rid)) = 1
            /\ \A i \in FhirOf(rid) : Len(fhir[i].resource.entry) = 3
            /\ cacheLatest = Some(Snapshot(p))
            /\ Cardinality(EventsOf(rid, "vitals")) = 1
            /\ \A i \in EventsOf(rid, "vitals") :
                  /\ chan[i].data = Snapshot(p)
                  /\ \A s \in Streams :
                        (subs[s].state = "open" /\ subs[s].start < i /\ ~Lagging(s))
                        => Cardinality({j \in DOMAIN Delivered(s) :
                                           Delivered(s)[j] = chan[i]})
                             = (IF Cursor(s) >= i THEN 1 ELSE 0)
            /\ Cardinality(EventsOf(rid, "alert"))
                 = (IF IsSome(GenerateAlert(MlResult(p))) THEN 1 ELSE 0)

\* the normal reading was accepted and the connected subscriber has got
\* its Vitals event
C7_Witness ==
    \E p \in IngestProcs :
        /\ Accepted(p) /\ ing[p].clean
        /\ Body(p) = NormalVitals(now)
        /\ subs["s1"].state = "open" /\ subs["s1"].start = 0 /\ subs["s1"].got = 1

(***************************************************************************)
(* C8: no effect of a request is visible before the earlier effects of     *)
(* the same request: FHIR row after analysis row after reading row, cache  *)
(* entry after FHIR row, Vitals event after cache entry, Alert event       *)
(* after the Vitals event, also in what each subscriber has been sent.     *)
(***************************************************************************)
C8_EffectsInOrder ==
    /\ \A i \in DOMAIN analyses : analyses[i].sensor_reading_id \in DOMAIN readings
    /\ \A i \in DOMAIN fhir : AnalysesOf(fhir[i].sensor_reading_id) # {}
    /\ \A r \in CachedRids : FhirOf(r) # {}
    /\ IsSome(cacheLatest) => Get(cacheLatest).rid \in CachedRids
    /\ \A i \in DOMAIN chan :
          /\ chan[i].type = "vitals" => chan[i].rid \in CachedRids
          /\ chan[i].type = "alert" =>
                \E j \in 1..(i - 1) : chan[j].type = "vitals" /\ chan[j].rid = chan[i].rid
    /\ \A s \in Streams : \A i \in (subs[s].start + 1)..Cursor(s) :
          chan[i].type = "alert" =>
              \A v \in EventsOf(chan[i].rid, "vitals") :
                  v > subs[s].start => v < i

\* worker w1 has published its Vitals event and not yet its Alert event,
\* and the Vitals event of w2's request has been published in between
C8_Witness ==
    /\ ing["w1"].pc = "alert"
    /\ Len(chan) = 2
    /\ chan[1].rid = ing["w1"].rid
    /\ chan[2].rid = ing["w2"].rid

(***************************************************************************)
(* C9: once the reading row is inserted the request ends with 200: the     *)
(* row stays as inserted, a failed analysis insert, FHIR insert, cache     *)
(* write or publish ends nothing, and the Vitals event is still            *)
(* published.                                                              *)
(***************************************************************************)
C9_ReadingSurvivesLaterFailures ==
    \A p \in IngestProcs :
        ing[p].rid > 0 =>
            /\ ing[p].rid \in DOMAIN readings
            /\ readings[ing[p].rid]
                 = ReadingRow(ing[p].rid, Get(ing[p].device), Body(p))
            /\ ing[p].pc = "done" =>
                  /\ ing[p].status = 200
                  /\ Cardinality(EventsOf(ing[p].rid, "vitals")) = 1

\* a request whose analysis insert, FHIR insert and cache write all failed,
\* published with no subscriber connected, and answered 200
C9_Witness ==
    \E p \in IngestProcs :
        /\ Accepted(p)
        /\ AnalysesOf(ing[p].rid) = {} /\ FhirOf(ing[p].rid) = {}
        /\ cacheLatest = None
        /\ \A s \in Streams : subs[s].state = "closed"

(***************************************************************************)
(* C10: the reading {heartRate 75, spo2 85, temperature 36.8}, validly     *)
(* signed, with the analyzer configuration of the tests, is stored with    *)
(* alert_level critical and publishes exactly one Alert event of level     *)
(* critical.                                                               *)
(***************************************************************************)
C10_CriticalSpo2Alert ==
    \A p \in IngestProcs :
        (Accepted(p) /\ Body(p) = CriticalSpo2Vitals(now)) =>
            /\ MlResult(p).alert_level = "critical"
            /\ Cardinality({i \in EventsOf(ing[p].rid, "alert") :
                               chan[i].data.level = "critical"}) = 1

\* a login request in flight or answered whose email names the user row u
LoginFor(p, u) == ses[p].kind = "login" /\ ses[p].email = Some(u.email)

\* the user row's locked_until is later than the instant t
LockedAt(u, t) == u.locked_until # None /\ Get(u.locked_until) > t

C15_FailedAttemptsCounted ==
    \A u \in users :
        (u.is_active /\ ~LockedAt(u, now)) =>
            u.failed_login_attempts = hist.wrong[u.id]

\* a signup request that passed validation and was answered
ValidSignupDone(p) ==
    ses[p].kind = "signup" /\ ses[p].pc = "done" /\ ses[p].status # 400

(***************************************************************************)
(* C16: no two users have the same normalized email, and every valid       *)
(* signup request is answered 200 (the user was created) or 409 (the       *)
(* email already had a user, also when another signup for the same email   *)
(* ran at the same time).                                                  *)
(***************************************************************************)
C16_SignupUnique ==
    /\ \A u \in users : \A v \in users : u.email = v.email => u = v
    /\ \A p \in SessionProcs :
          ValidSignupDone(p) =>
              \/ ses[p].status = 200 /\ ses[p].user # None /\ Get(ses[p].user) \in users
              \/ ses[p].status = 409

C17_WitnessForeign ==
    /\ vout.checked /\ vin.key = "attacker_key"
    /\ vout.at = Get(vout.token).iat

\* the token ids for which revoke_token has inserted a row
RevokedJtis == {r.jti : r \in revoked}

(***************************************************************************)
(* C18: is_token_revoked answers true for a token exactly when             *)
(* revoke_token has stored the token and the token's exp is later than     *)
(* the instant of the question: true from the revocation until exp, false  *)
(* from exp on, and false for a token that was never revoked.              *)
(***************************************************************************)
C18_RevokedIffUnexpiredRecord ==
    [][\A c \in Clients :
          (cli[c].pc = "revcheck" /\ cli'[c].pc # "revcheck"
             /\ cli'[c].lookup = "ok") =>
              LET t == Get(cli[c].tok) IN
              cli'[c].wasRevoked = (t.jti \in RevokedJtis /\ t.exp > now)]_vars

\* a read with a revoked token one second before its expiry found it revoked
C18_Witness ==
    \E c \in Clients :
        /\ ReadDone(c) /\ cli[c].lookup = "ok" /\ cli[c].wasRevoked
        /\ cli[c].status = 401
        /\ now = Get(cli[c].tok).exp - 1

\* a read at the instant of expiry found the revoked token not revoked
C18_WitnessExpired ==
    \E c \in Clients :
        /\ cli[c].pc = "serve" /\ ~cli[c].wasRevoked
        /\ Get(cli[c].tok).jti \in RevokedJtis
        /\ now = Get(cli[c].tok).exp

Backlog(s) == Len(chan) - Cursor(s)

\* what a step may do when streams more than `limit` events behind count
\* as lagging: a send changes no stream; a lagging stream that takes a
\* step is closed; any other stream that reads gets the next event
BackPressureStep(limit) ==
    /\ chan' # chan => (subs' = subs /\ Len(chan') = Len(chan) + 1)
    /\ \A s \in Streams :
          (subs[s].state = "open" /\ subs'[s] # subs[s]) =>
              IF Backlog(s) > limit
              THEN subs'[s].state = "closed"
              ELSE \/ subs'[s].state = "closed" /\ ~subs'[s].lagged
                   \/ subs'[s] = [subs[s] EXCEPT !.got = @ + 1,
                                                  !.out = Append(@, Cursor(s) + 1)]

\* while a stream is more than `limit` events behind the broadcaster can send
SendNeverWaits(limit) ==
    (\E s \in Streams : subs[s].state = "open" /\ Backlog(s) > limit) =>
        (Len(chan) < MaxEvents => ENABLED BroadcastEvent)

(***************************************************************************)
(* C20: a stream more than 100 events behind does not hold up             *)
(* the next send, is closed at its next receive, and the other stream      *)
(* still gets the event.                                                   *)
(***************************************************************************)
C20_BackPressureAtCapacity ==
    [](SendNeverWaits(ChannelCapacity)) /\ [][BackPressureStep(ChannelCapacity)]_vars

(***************************************************************************)
(* C20 with the events the channel keeps, 128 (100 rounded up to a power   *)
(* of two): a stream more than 128 events behind does not hold up the     *)
(* next send and is closed at its next receive; a stream up to 128 events  *)
(* behind, the other stream included, still gets every event in order.     *)
(***************************************************************************)
C20_BackPressure ==
    [](SendNeverWaits(BufferSlots)) /\ [][BackPressureStep(BufferSlots)]_vars

\* s1 was closed for lagging while s2 has read every event sent
C20_Witness ==
    /\ subs["s1"].state = "closed" /\ subs["s1"].lagged
    /\ subs["s2"].state = "open" /\ Cursor("s2") = Len(chan)
    /\ Len(chan) > BufferSlots

\* the events of a response body, heartbeats left out
EventItems(out) == SelectSeq(out, LAMBDA x : x # Heartbeat)

\* the events sent after stream s subscribed that it has taken, oldest first
TakenInOrder(s) == [i \in 1..subs[s].got |-> subs[s].start + i]

(***************************************************************************)
(* C21: the body of every stream connection starts with a heartbeat; its   *)
(* other items are heartbeats and the events sent after the subscription,  *)
(* each once and in the order the broadcaster took them; and while the     *)
(* connection lasts every such event is eventually in the body.            *)
(***************************************************************************)
C21_StreamOrder ==
    /\ [](\A s \in Streams :
             subs[s].state # "closed" =>
                 /\ Len(subs[s].out) >= 1 /\ subs[s].out[1] = Heartbeat
                 /\ EventItems(subs[s].out) = TakenInOrder(s)
                 /\ Cursor(s) <= Len(chan))
    /\ \A s \in Streams : \A i \in 1..(MaxFeedEvents + 1) :
          (subs[s].state = "open" /\ subs[s].start < i /\ i <= Len(chan))
              ~> (subs[s].state # "open" \/ Cursor(s) >= i)

\* s1 has sent heartbeat, event 1, heartbeat, event 2 and s2, connected
\* after event 1, has sent heartbeat, event 2
C21_Witness ==
    /\ subs["s1"].state = "open" /\ subs["s1"].out = <<Heartbeat, 1, Heartbeat, 2>>
    /\ subs["s2"].state = "open" /\ subs["s2"].out = <<Heartbeat, 2>>

C23_CacheLatestAndRecent ==
    /\ Len(cacheRecent) <= MaxRecentReadings
    /\ vin.clean =>
          /\ cacheRecent = NewestFirst(vin.k)
          /\ (vout.op = "latest" /\ vout.ok) =>
                vout.value = (IF vin.k = 0 THEN None ELSE Some(CacheSnapshot(vin.k)))
          /\ (vout.op = "recent" /\ vout.ok /\ vout.n >= 0) =>
                vout.value = SubSeq(NewestFirst(vin.k), 1,
                                    Min(vout.n, Min(vin.k, MaxRecentReadings)))

(***************************************************************************)
(* C24: a GET /api/vitals/latest that passed the bearer gate is answered   *)
(* 200: with the cached snapshot when the cache holds one and the read     *)
(* succeeds; otherwise with the snapshot of a stored reading of greatest   *)
(* reading_timestamp; otherwise, when no reading is stored or the query    *)
(* fails, with the zero snapshot.                                          *)
(***************************************************************************)
GreatestTimestamp(i) ==
    \A j \in DOMAIN readings :
        readings[j].reading_timestamp <= readings[i].reading_timestamp

C24_LatestAlways200 ==
    [][\A c \in Clients :
          (cli[c].pc = "serve" /\ cli[c].kind = "latest" /\ cli'[c].pc = "done") =>
             /\ cli'[c].status = 200
             /\ IF cli'[c].cacheOk /\ cacheLatest # None
                THEN cli'[c].body = cacheLatest
                ELSE IF cli'[c].dbOk /\ readings # <<>>
                THEN \E i \in DOMAIN readings :
                        /\ GreatestTimestamp(i)
                        /\ cli'[c].body = Some(RowSnapshot(readings[i]))
                ELSE cli'[c].body = Some(ZeroSnapshot)]_vars

\* a failed cache read answered from a store whose newest row is not its last
C24_Witness ==
    /\ cacheLatest # None
    /\ Len(readings) = 2
    /\ readings[1].reading_timestamp > readings[2].reading_timestamp
    /\ \E c \in Clients :
          /\ cli[c].pc = "done" /\ cli[c].kind = "latest" /\ cli[c].status = 200
          /\ ~cli[c].cacheOk /\ cli[c].dbOk
          /\ cli[c].body = Some(RowSnapshot(readings[1]))

(***************************************************************************)
(* C25: whenever no ingestion is in progress and no call of any ingestion  *)
(* has failed, vitals:latest is the snapshot of the stored reading with    *)
(* the greatest id.                                                        *)
(***************************************************************************)
\* a snapshot's fields on the wire (rid is a history field)
Wire(v) == [f \in DOMAIN v \ {"rid"} |-> v[f]]

SnapshotOfRow(r) ==
    LatestVitals(r.id,
                 Vitals(Get(r.heart_rate), Get(r.spo2), Get(r.temperature),
                        r.reading_timestamp),
                 AnalyzeReading(r))

C25_CacheHoldsNewest ==
    ( /\ \A p \in IngestProcs : ing[p].pc \in {"idle", "done"} /\ ing[p].clean
      /\ readings # <<>> )
    => /\ cacheLatest # None
       /\ Wire(Get(cacheLatest)) = Wire(SnapshotOfRow(readings[Len(readings)]))

(***************************************************************************)
(* C26: an export answered 200 projects min(stored readings, L) readings,  *)
(* L being the limit parameter clamped to [1, 1000], or 100 when the       *)
(* parameter is absent; the bundle's total is the number of its entries.   *)
(***************************************************************************)
ClampedLimit(q) ==
    IF q = None THEN DefaultExportLimit
    ELSE Max(1, Min(Get(q).val, MaxExportLimit))

ProjectedReadings(bundle) == {bundle.entry[k][1] : k \in DOMAIN bundle.entry}

C26_ExportLimit ==
    \A c \in Clients :
       (cli[c].pc = "done" /\ cli[c].kind = "export" /\ cli[c].status = 200
          /\ (cli[c].query = None \/ Get(cli[c].query).form = "dec")) =>
          /\ Cardinality(ProjectedReadings(Get(cli[c].body)))
                = Min(Len(readings), ClampedLimit(cli[c].query))
          /\ Get(cli[c].body).total = Len(Get(cli[c].body).entry)

(***************************************************************************)
(* C27: the stored revocation records never stay above the revoked tokens  *)
(* that are still unexpired: again and again revoked_tokens holds no       *)
(* record whose expiry instant has passed.                                 *)
(***************************************************************************)
ExpiredRecords == {r \in revoked : r.expires_at <= now}

C27_RevocationsSwept == []<>(ExpiredRecords = {})

(***************************************************************************)
(* C28: a login whose email normalizes to the email of a user that was     *)
(* stored when the request arrived, active and not locked, and whose       *)
(* password is that user's, is answered 200 with tokens that validate      *)
(* with the user's id, email and role, and the user's last_login_at is     *)
(* set; a login for an email with no active user, or with a wrong          *)
(* password, is answered 401 without a token.                              *)
(***************************************************************************)
\* the users a finished login's email names, as sent
NamedUsers(p) ==
    {u \in users : u.email = NormalizeEmail(Get(ses[p].raw)[1])}

RightPassword(p, u) == VerifyPassword(Get(ses[p].raw)[2], u.password_hash)

LoginDone(p) == ses[p].kind = "login" /\ ses[p].pc = "done"

C28_SignupThenLogin ==
    \A p \in SessionProcs :
       LoginDone(p) =>
          /\ \A u \in NamedUsers(p) :
                (u.id \in ses[p].known /\ u.is_active /\ ~LockedAt(u, now)
                    /\ RightPassword(p, u)) =>
                   /\ ses[p].status = 200
                   /\ ses[p].tokens # {}
                   /\ \A t \in ses[p].tokens :
                         /\ DecodeToken(t, now) # None
                         /\ Get(DecodeToken(t, now)).user_id = u.id
                         /\ Get(DecodeToken(t, now)).sub = u.email.name
                         /\ Get(DecodeToken(t, now)).role = u.role
                   /\ u.last_login_at # None
          /\ ( \/ \A u \in NamedUsers(p) : ~u.is_active
               \/ \E u \in NamedUsers(p) : ~RightPassword(p, u) ) =>
                (ses[p].status = 401 /\ ses[p].tokens = {})

(***************************************************************************)
(* C29: the bundle create_observation_bundle returns is a Bundle of type   *)
(* collection; its entries are one Observation per present vital of the    *)
(* reading, heart rate (8867-4) before SpO2 (2708-6) before temperature    *)
(* (8310-5), none for an absent vital; each carries the reading's value    *)
(* of that vital and the reference Device/{device_id}.                     *)
(***************************************************************************)
VitalOf(r, loinc) ==
    IF loinc = "8867-4" THEN r.heart_rate
    ELSE IF loinc = "2708-6" THEN r.spo2
    ELSE r.temperature

LoincOrder == <<"8867-4", "2708-6", "8310-5">>

\* the codes of the vitals the reading has, in the order of LoincOrder
RECURSIVE PresentCodes(_, _)
PresentCodes(r, k) ==
    IF k > Len(LoincOrder) THEN <<>>
    ELSE (IF VitalOf(r, LoincOrder[k]) # None THEN <<LoincOrder[k]>> ELSE <<>>)
         \o PresentCodes(r, k + 1)

C29_BundlePerPresentVital ==
    vout # NoBundle =>
       /\ vout.resourceType = "Bundle"
       /\ vout.type = "collection"
       /\ [k \in DOMAIN vout.entry |-> vout.entry[k].resource.code]
             = PresentCodes(vin.reading, 1)
       /\ \A k \in DOMAIN vout.entry :
             LET o == vout.entry[k].resource IN
             /\ o.resourceType = "Observation"
             /\ Some(o.value) = VitalOf(vin.reading, o.code)
             /\ o.device = <<"Device", vin.reading.device_id>>

\* a reading without SpO2: two entries, heart rate then temperature
C29_Witness ==
    /\ vout # NoBundle
    /\ vin.reading.heart_rate # None
    /\ vin.reading.spo2 = None
    /\ vin.reading.temperature # None
    /\ Len(vout.entry) = 2
    /\ vout.entry[2].resource.code = "8310-5"

\* a reading with all three vitals: three entries
C29_WitnessAll ==
    /\ vout # NoBundle
    /\ Len(vout.entry) = 3
    /\ vout.entry[1].resource.value = HrMax

(***************************************************************************)
(* C30: a device-ingest request is answered by the first check that fails, *)
(* in the order body ranges (400), X-Device-Id, X-Timestamp, X-Signature   *)
(* present and parsable (401), timestamp within the window (401),          *)
(* signature (401), active device (401); the devices table is queried      *)
(* only for a request that passed every earlier check.                     *)
(***************************************************************************)
\* the timestamp is more than ReplayWindow seconds from nowT
OutsideWindow(nowT, ts) == ts < nowT - ReplayWindow \/ ts > nowT + ReplayWindow

FirstFailingCheck(req, nowT) ==
    IF ~ValidateRanges(ParseBody(req.raw)) THEN Verdict(400, "validation")
    ELSE IF req.dev = None THEN Verdict(401, "Missing X-Device-Id")
    ELSE IF req.ts = None \/ ParseTimestamp(Get(req.ts)) = None
         THEN Verdict(401, "Missing X-Timestamp")
    ELSE IF req.sig = None THEN Verdict(401, "Missing X-Signature")
    ELSE IF OutsideWindow(nowT, Get(ParseTimestamp(Get(req.ts))))
         THEN Verdict(401, "Timestamp out of range")
    ELSE IF Get(req.sig) # ExpectedSignature(DeviceSecret,
                               Get(ParseTimestamp(Get(req.ts))), ParseBody(req.raw))
         THEN Verdict(401, "Invalid signature")
    ELSE Pass

C30_FirstFailingCheck ==
    \A p \in IngestProcs :
       ing[p].req # None =>
          LET req == Get(ing[p].req)
              first == FirstFailingCheck(req, now)
          IN IF first # Pass
             THEN /\ ing[p].pc = "done"
                  /\ ing[p].status = first.status
                  /\ ing[p].why = first.why
             ELSE \/ ing[p].pc = "lookup"
                  \/ ing[p].pc = "insert" /\ ing[p].device # None
                  \/ /\ ing[p].pc = "done"
                     /\ ing[p].status = 401
                     /\ ing[p].why = "Unknown device"

(***************************************************************************)
(* SpecLock: get_latest_vitals step by step (handlers.rs 353-388), one     *)
(* step per await, so that the cache's lock is held across the Redis       *)
(* command as it is in device_ingest.  A worker ingests one request while  *)
(* two clients read again and again.                                       *)
(***************************************************************************)
\* handlers.rs 354: state.redis.write().await
LatestLock(c) ==
    /\ cli[c].pc = "serve"
    /\ cli[c].kind = "latest"
    /\ redisLock = None
    /\ redisLock' = Some(c)
    /\ cli' = [cli EXCEPT ![c].pc = "cache"]
    /\ UNCHANGED <<now, build, sessVars, issued, revoked, loggedOut, ing, storeVars,
                   cacheLatest, cacheRecent, streamVars, verifyVars>>

\* the hit returns with the guard still held (a variant C40 rules out)
LatestCacheGetHolding(c, cacheOk) ==
    /\ cli[c].pc = "cache"
    /\ redisLock = Some(c)
    /\ LET cached == GetLatestVitals(cacheLatest, cacheOk) IN
       IF cached.ok /\ IsSome(cached.value)
       THEN /\ cli' = [cli EXCEPT ![c] =
                        [ClientDone(c, 200, "", "vitals") EXCEPT
                            !.cacheOk = cacheOk, !.body = cached.value]]
            /\ UNCHANGED redisLock
       ELSE /\ cli' = [cli EXCEPT ![c].pc = "store", ![c].cacheOk = cacheOk]
            /\ redisLock' = None
    /\ UNCHANGED <<now, build, sessVars, issued, revoked, loggedOut, ing, storeVars,
                   cacheLatest, cacheRecent, streamVars, verifyVars>>

\* handlers.rs 355-359: get_latest_vitals, and drop(redis) on the hit and
\* on the miss
LatestCacheGet(c, cacheOk) ==
    /\ cli[c].pc = "cache"
    /\ redisLock = Some(c)
    /\ LET cached == GetLatestVitals(cacheLatest, cacheOk) IN
       IF cached.ok /\ IsSome(cached.value)
       THEN cli' = [cli EXCEPT ![c] =
                      [ClientDone(c, 200, "", "vitals") EXCEPT
                          !.cacheOk = cacheOk, !.body = cached.value]]
       ELSE cli' = [cli EXCEPT ![c].pc = "store", ![c].cacheOk = cacheOk]
    /\ redisLock' = None
    /\ UNCHANGED <<now, build, sessVars, issued, revoked, loggedOut, ing, storeVars,
                   cacheLatest, cacheRecent, streamVars, verifyVars>>

\* handlers.rs 361-387: the newest row, or the zero snapshot
LatestStore(c, dbOk) ==
    /\ cli[c].pc = "store"
    /\ LET seen == [ClientDone(c, 200, "", "vitals") EXCEPT !.dbOk = dbOk] IN
       IF dbOk /\ readings # <<>>
       THEN \E i \in LatestRows(readings) :
               cli' = [cli EXCEPT ![c] =
                         [seen EXCEPT !.body = Some(RowSnapshot(readings[i]))]]
       ELSE cli' = [cli EXCEPT ![c] = [seen EXCEPT !.body = Some(ZeroSnapshot)]]
    /\ UNCHANGED <<now, build, sessVars, issued, revoked, loggedOut, ing, storeVars,
                   cacheVars, streamVars, verifyVars>>

ReadStep(c) ==
    \/ ClientStart(c, "latest", Bearer(TokenA))
    \/ ClientRevCheck(c, TRUE)
    \/ LatestLock(c)
    \/ \E cacheOk \in BOOLEAN : LatestCacheGet(c, cacheOk)
    \/ \E dbOk \in BOOLEAN : LatestStore(c, dbOk)
    \/ ClientReturn(c)

LockInputs(nowT) ==
    { Signed(DeviceSecret, BradyHypoxVitals(nowT), "compact", "TEST-DEVICE-001", nowT) }

WriteStep(p) == OneShot(p, LockInputs(now), {TRUE}, {0, 1})

Readers == {"c1", "c2"}
Writers == {"w1"}

NextLock ==
    \/ \E p \in Writers : WriteStep(p)
    \/ \E c \in Readers : ReadStep(c)

InitLock == InitLatest /\ readings = <<>> /\ cacheLatest = None

SpecLock == InitLock /\ [][NextLock]_vars

\* Every await of a request that obtains its response resumes: weak
\* fairness of each step.  tokio's RwLock queues its waiters in the order
\* they arrived, so a waiter is not passed over for ever: strong fairness
\* of each acquisition.
FairLock ==
    /\ \A p \in Writers : WF_vars(WriteStep(p)) /\ SF_vars(IngestLock(p))
    /\ \A c \in Readers : WF_vars(ReadStep(c)) /\ SF_vars(LatestLock(c))

SpecLockLive == SpecLock /\ FairLock

(***************************************************************************)
(* SpecReplay: one worker serves, again and again, two requests that were  *)
(* signed at instant 0, while the clock moves to the end of the replay     *)
(* window and one second past it; every store and cache call succeeds.     *)
(***************************************************************************)
MaxReplays == 3

ReplayInstants == {0, ReplayWindow \div 2, ReplayWindow, ReplayWindow + 1}

CapturedRequests ==
    { Signed(DeviceSecret, NormalVitals(0), "compact", "TEST-DEVICE-001", 0),
      Signed(DeviceSecret, BradyHypoxVitals(0), "compact", "TEST-DEVICE-001", 0) }

ReplayTick ==
    /\ \E t \in ReplayInstants :
          /\ t > now
          /\ \A u \in ReplayInstants : u > now => t <= u
          /\ now' = t
    /\ UNCHANGED <<build, sessVars, authVars, ing, storeVars, cacheVars, streamVars, verifyVars>>

NextReplay ==
    \/ IngestStep("w1", CapturedRequests, {TRUE}, {0}, MaxReplays)
    \/ ReplayTick

SpecReplay == Init /\ [][NextReplay]_vars

(***************************************************************************)
(* SpecSpoof: one worker serves the two captured requests, signed by       *)
(* TEST-DEVICE-001, under every X-Device-Id of DeviceIds, and the same     *)
(* bodies with the signature of a holder of another key.                   *)
(***************************************************************************)
MaxSpoofs == 2

DeviceIds ==
    {"TEST-DEVICE-001", "TEST-DEVICE-002", "TEST-DEVICE-003", "TEST-DEVICE-004"}

Relabel(req, devId) == [req EXCEPT !.dev = Some(devId)]

SpoofRequests ==
    { Relabel(req, d) : req \in CapturedRequests, d \in DeviceIds }
    \cup { Signed("another_secret", NormalVitals(0), "compact", d, 0) : d \in DeviceIds }

NextSpoof ==
    IngestStep("w1", SpoofRequests, {TRUE}, {0}, MaxSpoofs)

SpecSpoof == Init /\ [][NextSpoof]_vars

(***************************************************************************)
(* C31: the alert level of analyze_reading is critical whenever            *)
(* 0 < hr < critical_hr_low, hr > critical_hr_high or                      *)
(* 0 < spo2 < critical_spo2_low; otherwise high whenever temp > 38.0 or    *)
(* 0 < temp < 35.5; otherwise low whenever the signal quality is below     *)
(* 0.5; otherwise none.                                                    *)
(***************************************************************************)
MaxSeverity(cfg, r, quality) ==
    LET hr == OrZero(r.heart_rate)
        spo2 == OrZero(r.spo2)
        temp == OrZero(r.temperature)
    IN IF \/ (0 < hr /\ hr < cfg.critical_hr_low)
          \/ hr > cfg.critical_hr_high
          \/ (0 < spo2 /\ spo2 < cfg.critical_spo2_low) THEN "critical"
       ELSE IF temp > 380 \/ (0 < temp /\ temp < 355) THEN "high"
       ELSE IF quality < 50 THEN "low"
       ELSE "none"

C31_AlertLevelIsMaxSeverity ==
    Analyzed =>
       vout.analysis.alert_level
          = MaxSeverity(Get(vin).cfg, Get(Get(vin).reading), vout.analysis.quality_score)

\* bradycardia, then fever, then a poor signal: the level stays critical
C31_Witness ==
    /\ Analyzed
    /\ {"bradycardia", "fever", "poor_signal"} \subseteq vout.analysis.anomalies
    /\ vout.analysis.alert_level = "critical"

\* fever with a poor signal and no critical rule: high
C31_WitnessHigh ==
    /\ Analyzed
    /\ {"fever", "poor_signal"} \subseteq vout.analysis.anomalies
    /\ vout.analysis.alert_level = "high"

(***************************************************************************)
(* C32: with raw the sum of the contributions of the rules that fired      *)
(* (0.8, 0.8, 0.9, 0.6, 0.7, 0.5, 0.5), analyze_reading returns            *)
(* anomaly_score = min(1.0, raw / 2.0), within [0, 1], and classification  *)
(* normal if raw = 0, warning if 0 < raw < 0.5, critical otherwise; the    *)
(* quality score lies in [0, 1].  Scores are in hundredths.                *)
(***************************************************************************)
Contribution(rule) ==
    CASE rule = "bradycardia" -> 80
      [] rule = "tachycardia" -> 80
      [] rule = "hypoxemia" -> 90
      [] rule = "fever" -> 60
      [] rule = "hypothermia" -> 70
      [] rule = "hr_zscore" -> 50
      [] rule = "spo2_zscore" -> 50
      [] OTHER -> 0

RECURSIVE SumOfContributions(_)
SumOfContributions(rules) ==
    IF rules = {} THEN 0
    ELSE LET x == CHOOSE y \in rules : TRUE
         IN Contribution(x) + SumOfContributions(rules \ {x})

C32_ScoreAndClassification ==
    Analyzed =>
       LET a == vout.analysis
           sum == SumOfContributions(a.anomalies)
       IN /\ 2 * a.anomaly_score = Min(sum, 200)
          /\ a.anomaly_score >= 0 /\ a.anomaly_score <= 100
          /\ a.classification = (IF sum = 0 THEN "normal"
                                 ELSE IF sum < 50 THEN "warning" ELSE "critical")
          /\ a.quality_score >= 0 /\ a.quality_score <= 100

\* the contributions add up to more than 2.0: the score is capped at 1.0
C32_Witness ==
    /\ Analyzed
    /\ SumOfContributions(vout.analysis.anomalies) > 200
    /\ vout.analysis.anomaly_score = 100

\* every penalty applies: the quality is cut off at 0.0
C32_WitnessQuality ==
    /\ Analyzed
    /\ Get(vin).reading = Some(TestReading(Some(0), Some(0), Some(0)))
    /\ vout.analysis.quality_score = 0

\* no rule fires
C32_WitnessNormal ==
    /\ Analyzed
    /\ vout.analysis.anomalies = {}
    /\ vout.analysis.classification = "normal"

(***************************************************************************)
(* C33: when the reading of the cached snapshot is also the newest stored  *)
(* reading, the snapshot GET /api/vitals/latest builds from the store on   *)
(* a cache miss equals the cached snapshot in heartRate, spo2,             *)
(* temperature, timestamp, quality_score and ml_alert.                     *)
(***************************************************************************)
C33_MissEqualsHit ==
    [][\A c \in Clients :
          ( /\ cli[c].pc = "serve" /\ cli[c].kind = "latest" /\ cli'[c].pc = "done"
            /\ ~cli'[c].cacheOk /\ cli'[c].dbOk
            /\ cacheLatest # None
            /\ \A i \in DOMAIN readings :
                  GreatestTimestamp(i) <=> i = Get(cacheLatest).rid )
          => Wire(Get(cli'[c].body)) = Wire(Get(cacheLatest))]_vars

(***************************************************************************)
(* C34: for every successful ingestion, the ml_alert of the snapshot       *)
(* written to the cache and published as the Vitals event is non-null      *)
(* exactly when an Alert event is published for that ingestion, and then   *)
(* it is that Alert's level.                                               *)
(***************************************************************************)
\* the ingestion of reading rid has returned 200
Ingested(rid) ==
    /\ EventsOf(rid, "vitals") # {}
    /\ \A p \in IngestProcs : ing[p].rid = rid => ing[p].pc \in {"idle", "done"}

C34_SnapshotAlertMatchesEvent ==
    \A rid \in DOMAIN readings :
       Ingested(rid) =>
          /\ Cardinality(EventsOf(rid, "vitals")) = 1
          /\ Cardinality(EventsOf(rid, "alert")) <= 1
          /\ \A i \in EventsOf(rid, "vitals") :
                /\ IsSome(chan[i].data.ml_alert) <=> EventsOf(rid, "alert") # {}
                /\ \A j \in EventsOf(rid, "alert") :
                      /\ chan[i].data.ml_alert = Some(chan[j].data.level)
                      /\ i < j
                /\ (cacheLatest # None /\ Get(cacheLatest).rid = rid)
                      => Get(cacheLatest) = chan[i].data

\* one ingestion raised an alert, the other did not
C34_Witness ==
    \E r1, r2 \in DOMAIN readings :
       /\ Ingested(r1) /\ Ingested(r2)
       /\ EventsOf(r1, "alert") # {}
       /\ \E i \in EventsOf(r1, "vitals") : chan[i].data.ml_alert = Some("critical")
       /\ EventsOf(r2, "alert") = {}
       /\ \E i \in EventsOf(r2, "vitals") : chan[i].data.ml_alert = None

(***************************************************************************)
(* C35: the verifier keeps no record of accepted requests.  A validly      *)
(* signed request that arrives while |now - X-Timestamp| <= 60 passes the  *)
(* verifier whatever was accepted before, its insert adds one row with an  *)
(* id no earlier row has, and every submission that returned 200 has its   *)
(* own reading, analysis and FHIR rows and its own Vitals event.           *)
(***************************************************************************)
Payload(r) ==
    [heartRate |-> r.heart_rate, spo2 |-> r.spo2,
     temperature |-> r.temperature, timestamp |-> r.reading_timestamp]

RowsOf(table, rid) == { i \in DOMAIN table : table[i].sensor_reading_id = rid }

C35_ReplayAcceptedAgain ==
    [][\A p \in IngestProcs :
          /\ ( /\ ing[p].pc = "idle" /\ ing'[p].pc # "idle"
               /\ Get(ing'[p].req) \in CapturedRequests
               /\ Abs(now - Get(ParseTimestamp(Get(Get(ing'[p].req).ts))))
                     <= ReplayWindow )
             => ing'[p].pc = "lookup"
          /\ (ing[p].pc = "insert" /\ ing'[p].pc = "analysis")
             => /\ Len(readings') = Len(readings) + 1
                /\ ing'[p].rid = readings'[Len(readings')].id
                /\ \A i \in DOMAIN readings : readings[i].id # ing'[p].rid
          /\ (ing[p].pc # "done" /\ ing'[p].pc = "done" /\ ing'[p].status = 200)
             => /\ Cardinality({i \in DOMAIN chan' : /\ chan'[i].type = "vitals"
                                                       /\ chan'[i].rid = ing'[p].rid}) = 1
                /\ Cardinality(RowsOf(analyses, ing'[p].rid)) = 1
                /\ Cardinality(RowsOf(fhir, ing'[p].rid)) = 1
                /\ Len(readings) = Cardinality({i \in DOMAIN chan' : chan'[i].type = "vitals"})]_vars

\* the request stored as reading 1 was submitted again and returned 200
\* as reading 2, at the end of the window
C35_Witness ==
    /\ now = ReplayWindow
    /\ ing["w1"].pc = "done" /\ ing["w1"].status = 200 /\ ing["w1"].rid = 2
    /\ Payload(readings[1]) = Payload(readings[2])
    /\ readings[1].id # readings[2].id
    /\ \E i \in EventsOf(1, "vitals"), j \in EventsOf(2, "vitals") :
          Wire(chan[i].data) = Wire(chan[j].data)
    /\ cacheLatest # None /\ Get(cacheLatest).rid = 2

\* one second past the window the same request is refused
C35_WitnessLate ==
    /\ now = ReplayWindow + 1
    /\ ing["w1"].pc = "done" /\ ing["w1"].status = 401
    /\ ing["w1"].why = "Timestamp out of range"
    /\ Len(readings) >= 1

(***************************************************************************)
(* C36: the signature check does not depend on X-Device-Id.  Requests      *)
(* that differ only in X-Device-Id pass or fail the verifier together,     *)
(* and a (timestamp, body, signature) triple that is valid is accepted     *)
(* under the id of any active device, its reading stored as that           *)
(* device's.                                                               *)
(***************************************************************************)
Triple(req) == [raw |-> req.raw, ts |-> req.ts, sig |-> req.sig]

ActiveIds == { d.device_id : d \in {x \in Devices : x.is_active} }

C36_SignatureIgnoresDeviceId ==
    [][\A p \in IngestProcs :
          /\ (ing[p].pc = "idle" /\ ing'[p].pc # "idle")
             => LET req == Get(ing'[p].req) IN
                /\ \A other \in SpoofRequests :
                      Triple(other) = Triple(req)
                         => (ing'[p].pc = "lookup" <=> IngestFront(other, now, build) = Pass)
                /\ (\E d \in DeviceIds : req = Relabel(Signed(DeviceSecret,
                          ParseBody(req.raw), "compact", "TEST-DEVICE-001", 0), d))
                      => ing'[p].pc = "lookup"
          /\ (ing[p].pc = "lookup" /\ ing'[p].pc # "lookup")
             => LET devId == Get(Get(ing[p].req).dev) IN
                IF devId \in ActiveIds
                THEN /\ ing'[p].pc = "insert"
                     /\ Get(ing'[p].device).device_id = devId
                ELSE ing'[p].pc = "done" /\ ing'[p].status = 401
          /\ (ing[p].pc = "insert" /\ ing'[p].pc = "analysis")
             => \E d \in Devices :
                   /\ d.device_id = Get(Get(ing[p].req).dev)
                   /\ readings'[Len(readings')].device_id = d.id]_vars

\* the triple signed by TEST-DEVICE-001 and stored as its reading was also
\* accepted under X-Device-Id TEST-DEVICE-004 and stored as that device's
C36_Witness ==
    /\ ing["w1"].pc = "done" /\ ing["w1"].status = 200
    /\ Get(ing["w1"].req) = Relabel(Signed(DeviceSecret, BradyHypoxVitals(0),
                                "compact", "TEST-DEVICE-001", 0), "TEST-DEVICE-004")
    /\ Len(readings) = 2
    /\ readings[1].device_id = "uuid-1" /\ readings[2].device_id = "uuid-4"
    /\ Payload(readings[1]) = Payload(readings[2])

(***************************************************************************)
(* C37: logout changes only the revocation status of the presented         *)
(* token's id.  The rows it adds to revoked_tokens carry that id, it       *)
(* removes none and touches no user row, and a token no logout has borne   *)
(* (the refresh_token of the same login among them) passes the revocation  *)
(* test of the protected endpoints.                                        *)
(***************************************************************************)
C37_LogoutRevokesOnlyItsToken ==
    [][\A c \in Clients :
          /\ (cli[c].pc = "revoke" /\ cli'[c].pc = "done")
             => /\ revoked \subseteq revoked'
                /\ \A r \in revoked' \ revoked : r.jti = Get(cli[c].tok).jti
                /\ users' = users
                /\ issued' = issued
          /\ ( /\ cli[c].pc = "revcheck" /\ cli'[c].pc # "revcheck"
               /\ Get(cli[c].tok).jti \notin loggedOut )
             => cli'[c].pc = "serve"]_vars

\* TokenA was logged out and is revoked; TokenB, issued with it, has passed
\* the revocation test of a protected endpoint
C37_Witness ==
    /\ TokenA.jti \in loggedOut /\ RevokedRow(TokenA) \in revoked
    /\ TokenB.jti \notin loggedOut
    /\ \E c \in Clients :
          /\ cli[c].pc = "serve" /\ cli[c].tok = Some(TokenB)
          /\ cli[c].lookup = "ok"
    /\ TokenB.user_id = TokenA.user_id /\ TokenB.exp = TokenA.exp

(***************************************************************************)
(* C38: a revoked token is never accepted because its revocation record    *)
(* has self-expired.  At every instant at which validate_token accepts a   *)
(* token whose revocation row is stored, a revocation lookup the store     *)
(* answers refuses the request.                                            *)
(***************************************************************************)
C38_NoAcceptanceAfterSelfExpiry ==
    [][\A c \in Clients :
          ( /\ cli[c].pc = "revcheck" /\ cli'[c].pc # "revcheck"
            /\ cli'[c].lookup = "ok"
            /\ RevokedRow(Get(cli[c].tok)) \in revoked
            /\ ValidateToken(Get(cli[c].tok), now) )
          => /\ cli'[c].pc = "done"
             /\ cli'[c].status = 401 /\ cli'[c].why = "Token revoked"]_vars

(***************************************************************************)
(* C39: acceptance of a bearer token by the protected endpoints depends    *)
(* on the token and the revocation set, never on the user's row.  A token  *)
(* of the service that has not expired and that no logout has borne is     *)
(* served whatever users holds, while a login for a deactivated or locked  *)
(* user is refused.                                                        *)
(***************************************************************************)
Standing(t) == t \in issued /\ t.exp > now /\ t.jti \notin loggedOut

C39_AcceptanceIgnoresUserState ==
    [][/\ \A c \in Clients :
            /\ ( /\ cli[c].pc = "idle" /\ cli'[c].pc # "idle"
                 /\ cli'[c].kind \in {"latest", "export"}
                 /\ cli'[c].tok # None /\ Standing(Get(cli'[c].tok)) )
               => cli'[c].pc = "revcheck"
            /\ ( /\ cli[c].pc = "revcheck" /\ cli'[c].pc # "revcheck"
                 /\ Standing(Get(cli[c].tok)) )
               => cli'[c].pc = "serve"
       /\ \A p \in SessionProcs :
            ( /\ ses[p].pc = "lookup" /\ ses'[p].pc # "lookup"
              /\ \E u \in UsersByEmail(Get(ses[p].email)) :
                    ~u.is_active \/ IsLocked(u, now) )
            => /\ ses'[p].pc = "done"
               /\ ses'[p].status \in {401, 403}]_vars

\* alice was deactivated after her login: her token is served and her
\* login, with the right password, is refused
C39_Witness ==
    /\ \E u \in users : u.id = UserId(1) /\ ~u.is_active
    /\ cli["c1"].pc = "serve" /\ cli["c1"].kind = "latest"
    /\ Get(cli["c1"].tok).user_id = UserId(1)
    /\ ses["p1"].pc = "done" /\ ses["p1"].status = 401
    /\ ses["p1"].raw = Some(<<Email("alice", "lower"), PwAlice>>)

\* alice was locked after her login: her token is served and her login is
\* refused with 403
C39_WitnessLocked ==
    /\ \E u \in users : u.id = UserId(1) /\ u.is_active /\ IsLocked(u, now)
    /\ cli["c1"].pc = "serve"
    /\ Get(cli["c1"].tok).user_id = UserId(1)
    /\ ses["p1"].pc = "done" /\ ses["p1"].status = 403

(***************************************************************************)
(* C40: the cache lock is released on every path.  It is held only by a    *)
(* request that is at its single cache operation, and every request that   *)
(* has arrived, ingestion or read, completes: no requests wait on each     *)
(* other for ever.                                                         *)
(***************************************************************************)
LockHolders ==
    {p \in Writers : ing[p].pc = "cache"} \cup {c \in Clients : cli[c].pc = "cache"}

HeldAroundCacheOperation ==
    /\ Cardinality(LockHolders) <= 1
    /\ \A x \in Writers \cup Readers : redisLock = Some(x) <=> x \in LockHolders

C40_LockAlwaysReleased ==
    /\ [] HeldAroundCacheOperation
    /\ \A p \in Writers : (ing[p].pc # "idle") ~> (ing[p].pc = "done")
    /\ \A c \in Readers : (cli[c].pc # "idle") ~> (cli[c].pc = "done")
    /\ []<>(redisLock = None)

\* the worker and a reader wait for the lock the other reader holds
C40_Witness ==
    /\ redisLock = Some("c1") /\ cli["c1"].pc = "cache"
    /\ \A p \in Writers : ing[p].pc = "lock"
    /\ cli["c2"].pc = "serve"

\* every request has completed, the ingestions and a read that missed
C40_WitnessDone ==
    /\ \A p \in Writers : ing[p].pc = "done" /\ ing[p].status = 200
    /\ \A c \in Readers : cli[c].pc = "done" /\ cli[c].status = 200
    /\ ~cli["c1"].cacheOk
    /\ redisLock = None

====
